---------------------------- MODULE Spec2Model ----------------------------
(***************************************************************************)
(* A model of scholarag's query-construction pipeline:                     *)
(*   - hierarchy_resolving.py : RegionMeta (children, descendants, also   *)
(*     statement by statement, save_config and load_config),               *)
(*     get_descendants_id and the region-name expansion                    *)
(*   - utils.py               : build_search_query                         *)
(*   - document_stores/elastic.py : postprocess_query                      *)
(*   - app/dependencies.py    : get_query_from_params, get_reranker        *)
(*   - app/routers/retrieval.py : the retrieval, article_count and         *)
(*     article_listing endpoints                                           *)
(*                                                                         *)
(* Every function is modelled as an operator computed the way the code     *)
(* computes it; each component has its own specification whose initial     *)
(* states draw the call's inputs and whose action performs the call.       *)
(*                                                                         *)
(* Python values are represented with homogeneous shapes:                  *)
(*   - an optional value (x | None) is a record [some, v];                 *)
(*   - a string that the code only passes around is a TLA+ string or a     *)
(*     number naming it; a string whose characters the code inspects is a  *)
(*     sequence of one-character strings;                                  *)
(*   - a call's outcome is a record with a field exc naming the exception  *)
(*     it raised ("None" when it returned).                                *)
(***************************************************************************)
EXTENDS Integers, Sequences, FiniteSets, TLC

VARIABLES
    \* ---- RegionMeta.descendants (hierarchy_resolving.py) ----
    children_ids,   \* RegionMeta.children_ids : id -> list of ids
    ids,            \* the argument of descendants: an int, a set or a list
    desc_result,    \* the outcome of the call
    desc_pc,        \* "idle" | "call" | "done"
    \* ---- get_descendants_names (hierarchy_resolving.py) ----
    hierarchy_file, \* the parsed content of the json file at json_path
    incoming_region,\* the argument of get_descendants_names
    names_result,   \* the outcome of the call
    names_pc,
    \* ---- build_search_query (utils.py) ----
    topics,            \* the caller's topics object: a list or None
    regions,           \* the caller's regions object: a list or None
    filter_query,      \* the caller's filter_query object: a dict or None
    resolve_hierarchy, \* the flag
    expansion,         \* region -> what get_descendants_names returns for it
    passed_args,       \* the three objects as they were when the call began
    query_result,      \* the outcome of the call
    query_pc,
    \* ---- ElasticSearch.search / postprocess_query (elastic.py) ----
    es_query,   \* the caller's query object (a dict, or None)
    es_input,   \* the query-string text as it was when the last search began
    es_sent,    \* the query the last search handed to the engine client
    es_calls,   \* the number of searches made with es_query
    \* ---- get_query_from_params (app/dependencies.py) ----
    request_params, \* the query parameters of the request
    params_result,  \* what get_query_from_params returned
    params_pc,
    \* ---- the retrieval endpoint (app/routers/retrieval.py) ----
    rt_settings,  \* the Settings object of the request
    rt_request,   \* the RetrievalRequest
    rt_store,     \* what the paragraphs index answers to the request's query
    rt_rs,        \* the reranker dependency: "None" or the service
    rt_retrieved, \* the contexts as rts.arun returned them
    rt_contexts,  \* the handler's variable `contexts`
    rt_scores,    \* the handler's variable `scores` (None or a tuple)
    rt_indices,   \* the handler's variable `indices`
    rt_reranked,  \* what rs.rerank returned, when it was called
    rt_abstracts, \* fetched_abstracts["recreate_abstract"]
    rt_metadata,  \* fetched_metadata
    rt_calls,     \* the calls to collaborators made so far, in order
    rt_response,  \* the outcome of the request
    rt_pc,        \* the await the handler is at
    \* ---- RegionMeta.children (hierarchy_resolving.py) ----
    chl_children_ids, \* RegionMeta.children_ids of the queried object
    chl_region,       \* the argument region_id
    chl_result,       \* the outcome of the call
    chl_pc,
    \* ---- RegionMeta.descendants, statement by statement ----
    wk_children_ids, \* RegionMeta.children_ids of the object
    wk_ids,          \* the argument ids
    wk_unique,       \* the ids of unique_ids the for loop has still to take
    wk_stack,        \* the live iter_descendants generators, outermost first
    wk_descendants,  \* the local set `descendants`
    wk_result,       \* the outcome of the call
    wk_pc,           \* "idle" | "call" | "loop" | "done"
    \* ---- get_descendants_id (hierarchy_resolving.py) ----
    gd_id,     \* the argument brain_region_id: an int or a string
    gd_file,   \* the json file at json_path
    gd_result, \* the outcome of the call
    gd_pc,
    \* ---- RegionMeta.save_config / load_config (hierarchy_resolving.py) ----
    cf_meta,   \* the RegionMeta that is saved
    cf_file,   \* the json document in the file at json_file_path
    cf_loaded, \* the outcome of load_config on that file
    cf_pc,     \* "idle" | "save" | "load" | "done"
    \* ---- article_count / article_listing (app/routers/retrieval.py) ----
    ar_endpoint, \* the endpoint the request goes to
    ar_request,  \* the query parameters of the request
    ar_settings, \* the Settings object of the request
    ar_store,    \* the articles the paragraphs index holds for the query
    ar_sent,     \* the search handed to the document store, if any
    ar_response, \* the outcome of the request
    ar_pc

descVars  == <<children_ids, ids, desc_result, desc_pc>>
namesVars == <<hierarchy_file, incoming_region, names_result, names_pc>>
queryVars == <<topics, regions, filter_query, resolve_hierarchy, expansion,
               passed_args, query_result, query_pc>>
esVars    == <<es_query, es_input, es_sent, es_calls>>
paramVars == <<request_params, params_result, params_pc>>
retrVars  == <<rt_settings, rt_request, rt_store, rt_rs, rt_retrieved, rt_contexts,
               rt_scores, rt_indices, rt_reranked, rt_abstracts, rt_metadata, rt_calls,
               rt_response, rt_pc>>
childVars == <<chl_children_ids, chl_region, chl_result, chl_pc>>
walkVars  == <<wk_children_ids, wk_ids, wk_unique, wk_stack, wk_descendants, wk_result,
               wk_pc>>
idVars    == <<gd_id, gd_file, gd_result, gd_pc>>
cfgVars   == <<cf_meta, cf_file, cf_loaded, cf_pc>>
artVars   == <<ar_endpoint, ar_request, ar_settings, ar_store, ar_sent, ar_response, ar_pc>>
vars      == <<descVars, namesVars, queryVars, esVars, paramVars, retrVars, childVars, walkVars, idVars, cfgVars, artVars>>

-----------------------------------------------------------------------------
(* Bounds *)

\* Largest region id of a SpecDesc hierarchy (ids 0..MaxId, 0 the background).
MaxId == 3
\* Largest region id of a SpecNames hierarchy file.
MaxNameId == 2
\* Longest list of a SpecQuery call, apart from the lists that are as long as
\* the query-length limit.
MaxLen == 2
\* Longest query-string text a caller passes to search.
MaxText == 3
\* Most searches made with the same query object.
MaxSearches == 2
\* Most hits the paragraphs index ranks for a query, and the largest
\* retriever_k and reranker_k of a request.
MaxHits == 3
\* Largest region id of a hierarchy walked statement by statement.
MaxWalkId == 3
\* Most ids in a set passed to a walk.
MaxWalkSet == 2
\* Longest string passed to get_descendants_id as an identifier.
MaxIdLen == 2
\* Number of regions, the background apart, of a RegionMeta that is saved.
MaxCfgId == 3
\* Most articles the paragraphs index holds for a query of the article
\* endpoints.
MaxArticles == 2

-----------------------------------------------------------------------------
(* The components a specification does not exercise stay idle: their        *)
(* variables hold these values throughout.                                  *)

IdleDesc ==
    /\ children_ids = <<>>
    /\ ids = [kind |-> "int", int |-> 0, coll |-> {}]
    /\ desc_result = [exc |-> "NotCalled", val |-> {}]
    /\ desc_pc = "idle"

IdleNames ==
    /\ hierarchy_file = [status |-> "ok", names |-> <<>>, children_ids |-> <<>>]
    /\ incoming_region = <<>>
    /\ names_result = [exc |-> "NotCalled", val |-> <<>>]
    /\ names_pc = "idle"

IdleQuery ==
    /\ topics = [some |-> FALSE, v |-> <<>>]
    /\ regions = [some |-> FALSE, v |-> <<>>]
    /\ filter_query = [some |-> FALSE, has_bool |-> FALSE, has_must |-> FALSE, must |-> <<>>]
    /\ resolve_hierarchy = FALSE
    /\ expansion = <<>>
    /\ passed_args = <<>>
    /\ query_result = [exc |-> "NotCalled"]
    /\ query_pc = "idle"

IdleSearch ==
    /\ es_query = [kind |-> "none", wrapped |-> FALSE, text |-> <<>>]
    /\ es_input = <<>>
    /\ es_sent = [kind |-> "none", text |-> <<>>]
    /\ es_calls = 0

IdleParams ==
    /\ request_params = <<>>
    /\ params_result = [some |-> FALSE, bool |-> [must |-> <<>>]]
    /\ params_pc = "idle"

IdleRetrieval ==
    /\ rt_settings = <<>>
    /\ rt_request = <<>>
    /\ rt_store = [ok |-> FALSE, hits |-> <<>>]
    /\ rt_rs = "None"
    /\ rt_retrieved = <<>>
    /\ rt_contexts = <<>>
    /\ rt_scores = [some |-> FALSE, v |-> <<>>]
    /\ rt_indices = <<>>
    /\ rt_reranked = [exc |-> "NotCalled"]
    /\ rt_abstracts = <<>>
    /\ rt_metadata = <<>>
    /\ rt_calls = <<>>
    /\ rt_response = [status |-> 0, exc |-> "NotCalled", code |-> 0, records |-> <<>>]
    /\ rt_pc = "idle"

IdleChildren ==
    /\ chl_children_ids = <<>>
    /\ chl_region = 0
    /\ chl_result = [exc |-> "NotCalled", val |-> <<>>]
    /\ chl_pc = "idle"

IdleWalk ==
    /\ wk_children_ids = <<>>
    /\ wk_ids = [kind |-> "int", int |-> 0, coll |-> {}]
    /\ wk_unique = {}
    /\ wk_stack = <<>>
    /\ wk_descendants = {}
    /\ wk_result = [exc |-> "NotCalled", val |-> {}]
    /\ wk_pc = "idle"

IdleId ==
    /\ gd_id = [kind |-> "int", int |-> 0, str |-> <<>>]
    /\ gd_file = [status |-> "ok", names |-> <<>>, children_ids |-> <<>>]
    /\ gd_result = [exc |-> "NotCalled", val |-> {}]
    /\ gd_pc = "idle"

IdleConfig ==
    /\ cf_meta = <<>>
    /\ cf_file = <<>>
    /\ cf_loaded = [exc |-> "NotCalled"]
    /\ cf_pc = "idle"

IdleArticles ==
    /\ ar_endpoint = "none"
    /\ ar_request = <<>>
    /\ ar_settings = <<>>
    /\ ar_store = <<>>
    /\ ar_sent = [some |-> FALSE, must |-> <<>>, aggs |-> "", size |-> 0]
    /\ ar_response = [status |-> 0, exc |-> "NotCalled", code |-> 0, article_count |-> 0,
                      items |-> <<>>]
    /\ ar_pc = "idle"

-----------------------------------------------------------------------------
(* Generic helpers *)

Range(s) == {s[i] : i \in 1..Len(s)}

Min(S) == CHOOSE x \in S : \A y \in S : x <= y
Max(S) == CHOOSE x \in S : \A y \in S : x >= y

RECURSIVE Ascending(_)
Ascending(S) == IF S = {} THEN <<>> ELSE <<Min(S)>> \o Ascending(S \ {Min(S)})

RECURSIVE Descending(_)
Descending(S) == IF S = {} THEN <<>> ELSE <<Max(S)>> \o Descending(S \ {Max(S)})

\* All the orders in which the elements of a finite set can be enumerated.
Orders(S) ==
    {s \in [1..Cardinality(S) -> S] : \A i, j \in 1..Cardinality(S) : i # j => s[i] # s[j]}

-----------------------------------------------------------------------------
(* RegionMeta: hierarchies *)

background_id == 0

\* parent maps over 1..n in which following the parent links from any node
\* reaches the background (no cycle): the tree invariant.
RECURSIVE ReachesBackground(_, _, _)
ReachesBackground(p, i, fuel) ==
    IF i = background_id THEN TRUE
    ELSE IF fuel = 0 THEN FALSE
    ELSE ReachesBackground(p, p[i], fuel - 1)

TreeParents(n) ==
    {p \in [1..n -> 0..n] : \A i \in 1..n : ReachesBackground(p, i, n)}

\* The children_ids map that goes with a parent map.  The stored order of a
\* children list is the order of insertion (ascending or descending here);
\* the background lists the root as its child or, as RegionMeta.__init__
\* leaves it, lists nothing.
ChildrenOf(p, n, ascending, bg_linked) ==
    [i \in 0..n |->
        LET kids == {j \in 1..n : p[j] = i}
        IN  IF i = background_id /\ ~bg_linked THEN <<>>
            ELSE IF ascending THEN Ascending(kids) ELSE Descending(kids)]

Hierarchies(n) ==
    {ChildrenOf(p, n, asc, bg) : p \in TreeParents(n), asc \in BOOLEAN, bg \in BOOLEAN}

-----------------------------------------------------------------------------
(* RegionMeta.children / RegionMeta.descendants *)

\* children(region_id): tuple(self.children_ids[region_id]); a KeyError for an
\* id that is no key of children_ids.
children(cids, region_id) == cids[region_id]

\* iter_descendants(region_id) raises KeyError when it meets an id that is no
\* key of children_ids.
RECURSIVE iter_raises(_, _)
iter_raises(cids, region_id) ==
    IF region_id \notin DOMAIN cids THEN TRUE
    ELSE \E i \in 1..Len(children(cids, region_id)) :
            iter_raises(cids, children(cids, region_id)[i])

\* The set of the values iter_descendants(region_id) yields: region_id, then
\* for each child the child and what iter_descendants(child) yields.
iter_descendants_shallow(cids, region_id) ==
    {region_id} \cup Range(children(cids, region_id))

RECURSIVE iter_descendants(_, _)
iter_descendants(cids, region_id) ==
    {region_id} \cup
    UNION {{children(cids, region_id)[i]} \cup iter_descendants(cids, children(cids, region_id)[i])
              : i \in 1..Len(children(cids, region_id))}

\* The argument of descendants.
IntArg(i)  == [kind |-> "int",  int |-> i, coll |-> {}]
SetArg(S)  == [kind |-> "set",  int |-> 0, coll |-> S]
ListArg(S) == [kind |-> "list", int |-> 0, coll |-> S]

Returned(v) == [exc |-> "None", val |-> v]
Raised(e)   == [exc |-> e, val |-> {}]

\* descendants(ids): unique_ids is bound for an int and for a set only, so
\* any other argument reaches the loop with unique_ids unbound.
descendants(cids, arg) ==
    IF arg.kind \notin {"int", "set"} THEN Raised("UnboundLocalError")
    ELSE LET unique_ids == IF arg.kind = "int" THEN {arg.int} ELSE arg.coll
         IN  IF \E id_ \in unique_ids : iter_raises(cids, id_)
             THEN Raised("KeyError")
             ELSE Returned(UNION {iter_descendants(cids, id_) : id_ \in unique_ids})

-----------------------------------------------------------------------------
(* Specification SpecDesc: one call of RegionMeta.descendants *)

NoResult == [exc |-> "NotCalled", val |-> {}]

\* Ids a caller may pass: those of the hierarchy and one unknown id.
ArgIds == 0..(MaxId + 1)

InitDesc ==
    /\ children_ids \in Hierarchies(MaxId)
    /\ ids \in {IntArg(i) : i \in ArgIds}
           \cup {SetArg(S) : S \in SUBSET ArgIds}
           \cup {ListArg(S) : S \in {{}, {1}, {1, 2}}}
    /\ desc_result = NoResult
    /\ desc_pc = "call"
    /\ IdleNames
    /\ IdleQuery
    /\ IdleSearch
    /\ IdleParams
    /\ IdleRetrieval
    /\ IdleChildren
    /\ IdleWalk
    /\ IdleId
    /\ IdleConfig
    /\ IdleArticles

CallDescendants ==
    /\ desc_pc = "call"
    /\ desc_result' = descendants(children_ids, ids)
    /\ desc_pc' = "done"
    /\ UNCHANGED <<children_ids, ids, namesVars, queryVars, esVars, paramVars, retrVars, childVars, walkVars, idVars, cfgVars, artVars>>

NextDesc == CallDescendants

SpecDesc == InitDesc /\ [][NextDesc]_vars

-----------------------------------------------------------------------------
(* C1 *)

\* The ids reachable from the ids of S by following child links zero or more
\* times, computed as a fixpoint of the child relation.
RECURSIVE Closure(_, _)
Closure(cids, S) ==
    LET step == S \cup UNION {Range(cids[i]) : i \in S}
    IN  IF step = S THEN S ELSE Closure(cids, step)

HierarchyIds == DOMAIN children_ids

DescCase ==
    /\ desc_pc = "done"
    /\ ids.kind \in {"int", "set"}
    /\ (ids.kind = "int" => ids.int \in HierarchyIds)
    /\ (ids.kind = "set" => ids.coll \subseteq HierarchyIds)

\* C1: on a tree-shaped hierarchy, descendants of an id or of a set of ids of
\* the hierarchy returns exactly the ids reachable from an input id by child
\* links (zero or more): it holds every input id, for one id r it is {r}
\* united with descendants(c) over the children c of r, and for a set it is
\* the union of the descendants of its members.
C1_DescendantsIsReachableSet ==
    DescCase =>
        /\ desc_result.exc = "None"
        /\ LET input == IF ids.kind = "int" THEN {ids.int} ELSE ids.coll
           IN  /\ desc_result.val = Closure(children_ids, input)
               /\ input \subseteq desc_result.val
               /\ ids.kind = "int" =>
                     desc_result.val =
                        {ids.int} \cup
                        UNION {descendants(children_ids, IntArg(c)).val
                                  : c \in Range(children_ids[ids.int])}
               /\ ids.kind = "set" =>
                     desc_result.val =
                        UNION {descendants(children_ids, IntArg(a)).val : a \in ids.coll}

\* A call on a set of two ids, one of which has a grandchild.
C1_Witness ==
    /\ DescCase
    /\ ids.kind = "set"
    /\ Cardinality(ids.coll) = 2
    /\ \E a \in ids.coll : \E c \in Range(children_ids[a]) : children_ids[c] # <<>>
    /\ Cardinality(desc_result.val) > 2

-----------------------------------------------------------------------------
(* Region names: strings whose letter case the code changes *)

\* str.lower() on one character of the alphabet of the model.
LowerChar(c) ==
    CASE c = "A" -> "a"
      [] c = "B" -> "b"
      [] c = "G" -> "g"
      [] OTHER   -> c

\* str.lower() as the identity (a variant).
LowerCharKeepsCase(c) == c

\* str.lower()
Lower(s) == [i \in 1..Len(s) |-> LowerChar(s[i])]

\* Names a hierarchy file gives to its regions, and names a caller asks for.
FileNames  == {<<"b", "g">>, <<"A", "b">>, <<"c">>}
AskedNames == {<<"b", "g">>, <<"B", "g">>, <<"a", "b">>, <<"A", "B">>, <<"c">>, <<"z">>}

-----------------------------------------------------------------------------
(* load_names_mapping / get_descendants_id / get_descendants_names *)

\* The json file at json_path: readable with a hierarchy in it ("ok"), absent
\* ("missing") or not json ("corrupt").
HierarchyFile(nm, cids) == [status |-> "ok", names |-> nm, children_ids |-> cids]
BadFile(st)             == [status |-> st, names |-> <<>>, children_ids |-> <<>>]

\* What open() + json.load() raise on the file.
file_error(file) ==
    CASE file.status = "missing" -> "FileNotFoundError"
      [] file.status = "corrupt" -> "JSONDecodeError"
      [] OTHER                   -> "None"

\* load_names_mapping: {k: v.lower() for k, v in KG_hierarchy["names"].items()}
load_names_mapping(file) ==
    [k \in DOMAIN file.names |-> Lower(file.names[k])]

\* get_descendants_id for an integer id: load_config, then descendants; the
\* ValueError (a JSONDecodeError is one) and IOError handlers return the
\* singleton of the id, any other exception propagates.
get_descendants_id(brain_region_id, file) ==
    IF file_error(file) # "None" THEN Returned({brain_region_id})
    ELSE descendants(file.children_ids, IntArg(brain_region_id))

\* br_to_id.get(name): the inverted mapping keeps, for a name that several
\* ids share, the id that comes last in the file's key order, which the model
\* leaves open: any id with that name.
\* The lookup giving an id whatever the name (a variant).
br_to_id_get_any_name(id_to_br, name) == DOMAIN id_to_br

br_to_id_get(id_to_br, name) == {id \in DOMAIN id_to_br : id_to_br[id] = name}

\* `if region_id is None` (a variant).
region_id_is_none(found, region_id) == ~found

\* `if not region_id`: the lookup found nothing (None) or found the id 0.
not_region_id(found, region_id) == ~found \/ region_id = 0

NamesReturned(l) == [exc |-> "None", val |-> l]
NamesRaised(e)   == [exc |-> e, val |-> <<>>]

\* The outcome of get_descendants_names once br_to_id.get gave region_id.
names_of_descendants(incoming, file, id_to_br, region_id) ==
    LET got == get_descendants_id(region_id, file)
    IN  IF got.exc # "None" THEN {NamesRaised(got.exc)}
        ELSE LET named == {d \in got.val : d \in DOMAIN id_to_br}
             IN  \* the list follows the iteration order of the set of ids
                 IF named = {} THEN {NamesReturned(<<incoming>>)}
                 ELSE {NamesReturned([i \in 1..Cardinality(named) |-> id_to_br[o[i]]])
                          : o \in Orders(named)}

\* get_descendants_names(incoming, json_path): every outcome the call
\* can have.
get_descendants_names(incoming, file) ==
    IF file_error(file) # "None" THEN {NamesRaised(file_error(file))}
    ELSE LET id_to_br == load_names_mapping(file)
             hits     == br_to_id_get(id_to_br, Lower(incoming))
         IN  IF hits = {} THEN {NamesReturned(<<incoming>>)}
             ELSE UNION {IF not_region_id(TRUE, region_id)
                         THEN {NamesReturned(<<incoming>>)}
                         ELSE names_of_descendants(incoming, file, id_to_br, region_id)
                            : region_id \in hits}

-----------------------------------------------------------------------------
(* Specification SpecNames: one call of get_descendants_names *)

NameMaps(n) == UNION {[S -> FileNames] : S \in SUBSET (0..n)}

InitNames ==
    /\ hierarchy_file \in
          {HierarchyFile(nm, cids) : nm \in NameMaps(MaxNameId), cids \in Hierarchies(MaxNameId)}
          \cup {BadFile("missing"), BadFile("corrupt")}
    /\ incoming_region \in AskedNames
    /\ names_result = [exc |-> "NotCalled", val |-> <<>>]
    /\ names_pc = "call"
    /\ IdleDesc
    /\ IdleQuery
    /\ IdleSearch
    /\ IdleParams
    /\ IdleRetrieval
    /\ IdleChildren
    /\ IdleWalk
    /\ IdleId
    /\ IdleConfig
    /\ IdleArticles

CallGetDescendantsNames ==
    /\ names_pc = "call"
    /\ names_result' \in get_descendants_names(incoming_region, hierarchy_file)
    /\ names_pc' = "done"
    /\ UNCHANGED <<hierarchy_file, incoming_region, descVars, queryVars, esVars, paramVars, retrVars, childVars, walkVars, idVars, cfgVars, artVars>>

NextNames == CallGetDescendantsNames

SpecNames == InitNames /\ [][NextNames]_vars

-----------------------------------------------------------------------------
(* C2 *)

\* The lower-cased names of the named ids among the descendants of id, in
\* one of their orders.
IsNamesOfDescendants(l, file, id) ==
    LET named == {d \in Closure(file.children_ids, {id}) : d \in DOMAIN file.names}
    IN  /\ Len(l) = Cardinality(named)
        /\ \E o \in Orders(named) : l = [i \in 1..Len(l) |-> Lower(file.names[o[i]])]

MatchingIds(file, name) ==
    {id \in DOMAIN file.names : Lower(file.names[id]) = Lower(name)}

\* C2: whenever the lower-cased input name is the lower-cased name of a
\* region id of the hierarchy, whatever the letter case of the input,
\* get_descendants_names returns the lower-cased names of the named ids of
\* descendants(id), one entry per id.
C2_KnownNameExpands ==
    (/\ names_pc = "done"
     /\ hierarchy_file.status = "ok"
     /\ MatchingIds(hierarchy_file, incoming_region) # {})
    => /\ names_result.exc = "None"
       /\ \E id \in MatchingIds(hierarchy_file, incoming_region) :
             IsNamesOfDescendants(names_result.val, hierarchy_file, id)

-----------------------------------------------------------------------------
(* build_search_query (utils.py) *)

\* Optional lists: a list, or None.
None       == [some |-> FALSE, v |-> <<>>]
Some(l)    == [some |-> TRUE, v |-> l]
\* `if x` / `not x` on an optional list: None and the empty list are falsy.
Truthy(x)  == x.some /\ x.v # <<>>

\* filter_query: None, or a dict that may hold "bool", which may hold "must".
NoFilter        == [some |-> FALSE, has_bool |-> FALSE, has_must |-> FALSE, must |-> <<>>]
EmptyDict       == [some |-> TRUE,  has_bool |-> FALSE, has_must |-> FALSE, must |-> <<>>]
BoolWithoutMust == [some |-> TRUE,  has_bool |-> TRUE,  has_must |-> FALSE, must |-> <<>>]
BoolMust(l)     == [some |-> TRUE,  has_bool |-> TRUE,  has_must |-> TRUE,  must |-> l]
\* `if filter_query`: None and the empty dict are falsy.
TruthyDict(d)   == d.some /\ d.has_bool

\* The query-length limit of the engine.
OSQueryLimit == 1024

\* x // 2, Python's floor division.
FloorHalf(x) == IF x >= 0 THEN x \div 2 ELSE -((1 - x) \div 2)

\* l[:k], Python's slice: a negative k counts from the end.
SliceTo(l, k) ==
    LET n == IF k >= 0 THEN (IF k < Len(l) THEN k ELSE Len(l))
             ELSE (IF Len(l) + k > 0 THEN Len(l) + k ELSE 0)
    IN  SubSeq(l, 1, n)

\* {"multi_match": {"query": q, "type": "phrase", "fields": ["title", "text"]}}
multi_match(q) ==
    [multi_match |-> [query |-> q, type |-> "phrase", fields |-> <<"title", "text">>]]

\* topic_query: one clause per topic, none when topics is None.
topic_query_reversed(tp) ==
    IF tp.some THEN [i \in 1..Len(tp.v) |-> multi_match(tp.v[Len(tp.v) + 1 - i])] ELSE <<>>

topic_query(tp) ==
    IF tp.some THEN [i \in 1..Len(tp.v) |-> multi_match(tp.v[i])] ELSE <<>>

\* expanded_brain_regions after the loop: the lists get_descendants_names
\* returns for the regions, one after the other.
RECURSIVE extend_all(_, _, _)
extend_all(rg, expand, i) ==
    IF i > Len(rg) THEN <<>> ELSE expand[rg[i]] \o extend_all(rg, expand, i + 1)

\* max_query_len = 1024 - len(topics) if topics else 1024
max_query_len(tp) == IF Truthy(tp) THEN OSQueryLimit - Len(tp.v) ELSE OSQueryLimit

\* The cap on the expanded list.
limit_query_uncapped(expanded, tp) == expanded

limit_query_keeps_last(expanded, tp) ==
    IF 2 * Len(expanded) > max_query_len(tp)
    THEN SubSeq(expanded,
                Len(expanded) - Len(SliceTo(expanded, FloorHalf(max_query_len(tp)))) + 1,
                Len(expanded))
    ELSE expanded

limit_query(expanded, tp) ==
    IF 2 * Len(expanded) > max_query_len(tp)
    THEN SliceTo(expanded, FloorHalf(max_query_len(tp)))
    ELSE expanded

\* expanded_brain_regions
expanded_brain_regions(tp, rg, resolve, expand) ==
    IF Truthy(rg) /\ resolve
    THEN limit_query(extend_all(rg.v, expand, 1), tp)
    ELSE rg.v

\* The guard of the region group, as a test of truthiness (a variant).
regions_given_truthy(rg) == Truthy(rg)

\* The guard of the region group: `if regions is not None`.
regions_given(rg) == rg.some

\* The should-group over the region terms.
should_group(terms) ==
    [bool |-> [should |-> [i \in 1..Len(terms) |-> multi_match(terms[i])]]]

\* regions_query with one must entry per region term (a variant).
regions_query_flat(tp, rg, resolve, expand) ==
    IF regions_given(rg)
    THEN LET e == expanded_brain_regions(tp, rg, resolve, expand)
         IN  [i \in 1..Len(e) |-> should_group(<<e[i]>>)]
    ELSE <<>>

\* regions_query: a list holding the one should-group, or the empty list.
regions_query(tp, rg, resolve, expand) ==
    IF regions_given(rg)
    THEN <<should_group(expanded_brain_regions(tp, rg, resolve, expand))>>
    ELSE <<>>

\* filter_query_list with its clauses reversed (a variant).
filter_query_list_reversed(fq) ==
    IF TruthyDict(fq) /\ fq.has_must
    THEN [i \in 1..Len(fq.must) |-> fq.must[Len(fq.must) + 1 - i]]
    ELSE <<>>

\* filter_query_list: filter_query.get("bool", {}).get("must", []) if
\* filter_query else []
filter_query_list(fq) ==
    IF TruthyDict(fq) /\ fq.has_must THEN fq.must ELSE <<>>

\* The outcome of a call: the query, or the HTTPException raised.
QueryReturned(must) ==
    [exc |-> "None", status_code |-> 0, detail |-> "", query |-> [bool |-> [must |-> must]]]
QueryRaised(code, msg) ==
    [exc |-> "HTTPException", status_code |-> code, detail |-> msg,
     query |-> [bool |-> [must |-> <<>>]]]

\* The guard of the call, rejecting only when both are None (a variant).
nothing_to_search_none_only(tp, rg) == ~tp.some /\ ~rg.some

\* `if not topics and not regions`
nothing_to_search(tp, rg) == ~Truthy(tp) /\ ~Truthy(rg)

\* The order of the must list, with the filters first (a variant).
must_list_filters_first(tq, rq, fl) == fl \o tq \o rq

\* [*topic_query, *regions_query, *filter_query_list]
must_list(tq, rq, fl) == tq \o rq \o fl

build_search_query(tp, rg, fq, resolve, expand) ==
    IF nothing_to_search(tp, rg)
    THEN QueryRaised(422, "Please provide at least one region or topic.")
    ELSE QueryReturned(must_list(topic_query(tp),
                                 regions_query(tp, rg, resolve, expand),
                                 filter_query_list(fq)))

-----------------------------------------------------------------------------
(* Specification SpecQuery: one call of build_search_query *)

\* Strings are named by numbers: topics, regions, the names an expansion
\* returns, and the clauses of a filter.
TopicTerms    == {1, 2}
RegionTerms   == {2001, 2002}
FilterClauses == {[term |-> 21], [term |-> 22]}
ExpName(r, i) == 1000 * r + i

SmallSeqs(S) == UNION {[1..n -> S] : n \in 0..MaxLen}

\* A list of n distinct topics.
LongTopics(n) == [i \in 1..n |-> i]

\* What get_descendants_names returns for region r when the region has n
\* names to give: a non-empty list of names.
ExpList(r, n) == [i \in 1..n |-> ExpName(r, i)]
Expansions(lens) == {[r \in RegionTerms |-> ExpList(r, len[r])] : len \in [RegionTerms -> lens]}

\* Lengths around the limit, for the topics and for one region's expansion.
NearLimit     == {OSQueryLimit - 1, OSQueryLimit, OSQueryLimit + 1, OSQueryLimit + 2}
NearHalfLimit == {(OSQueryLimit \div 2) - 1, OSQueryLimit \div 2, (OSQueryLimit \div 2) + 1}

\* Calls on short lists, with every shape of every argument.
SmallCall ==
    /\ topics \in {None} \cup {Some(l) : l \in SmallSeqs(TopicTerms)}
    /\ regions \in {None} \cup {Some(l) : l \in SmallSeqs(RegionTerms)}
    /\ filter_query \in {NoFilter, EmptyDict, BoolWithoutMust}
                        \cup {BoolMust(l) : l \in SmallSeqs(FilterClauses)}
    /\ resolve_hierarchy \in BOOLEAN
    /\ IF resolve_hierarchy /\ Truthy(regions)
       THEN expansion \in Expansions(1..MaxLen)
       ELSE expansion \in Expansions({1})

\* Calls whose topics or whose expansions are about as long as the limit.
LongCall ==
    /\ topics \in {None} \cup {Some(LongTopics(n)) : n \in (1..MaxLen) \cup NearLimit}
    /\ regions \in {Some(<<2001>>), Some(<<2001, 2002>>)}
    /\ filter_query \in {NoFilter, BoolMust(<<[term |-> 21]>>)}
    /\ resolve_hierarchy = TRUE
    /\ expansion \in Expansions({1} \cup NearHalfLimit)

InitQuery ==
    /\ SmallCall \/ LongCall
    /\ passed_args = <<topics, regions, filter_query>>
    /\ query_result = [exc |-> "NotCalled"]
    /\ query_pc = "call"
    /\ IdleDesc
    /\ IdleNames
    /\ IdleSearch
    /\ IdleParams
    /\ IdleRetrieval
    /\ IdleChildren
    /\ IdleWalk
    /\ IdleId
    /\ IdleConfig
    /\ IdleArticles

\* The call.  The code assigns to none of its arguments and changes none of
\* the objects they name.
CallBuildSearchQuery ==
    /\ query_pc = "call"
    /\ query_result' =
          build_search_query(topics, regions, filter_query, resolve_hierarchy, expansion)
    /\ query_pc' = "done"
    /\ UNCHANGED <<topics, regions, filter_query, resolve_hierarchy, expansion,
                   passed_args, descVars, namesVars, esVars, paramVars, retrVars, childVars, walkVars, idVars, cfgVars, artVars>>

NextQuery == CallBuildSearchQuery

SpecQuery == InitQuery /\ [][NextQuery]_vars

-----------------------------------------------------------------------------
(* C3 - C7 *)

QueryDone == query_pc = "done" /\ query_result.exc = "None"
Must      == query_result.query.bool.must
NTopics   == IF topics.some THEN Len(topics.v) ELSE 0
NFilters  == IF filter_query.some /\ filter_query.has_bool /\ filter_query.has_must
             THEN Len(filter_query.must) ELSE 0

IsPhraseMatch(c, q) ==
    /\ DOMAIN c = {"multi_match"}
    /\ c.multi_match.query = q
    /\ c.multi_match.type = "phrase"
    /\ c.multi_match.fields = <<"title", "text">>

IsShouldGroup(c) == DOMAIN c = {"bool"} /\ DOMAIN c.bool = {"should"}

GroupPositions == {i \in 1..Len(Must) : IsShouldGroup(Must[i])}

\* C3: the must list holds the topic clauses in the order of topics, then
\* the region group, then the clauses of filter_query's must list in their
\* order.
C3_MustOrder ==
    QueryDone =>
        \E ng \in {0, 1} :
            /\ Len(Must) = NTopics + ng + NFilters
            /\ \A i \in 1..NTopics : IsPhraseMatch(Must[i], topics.v[i])
            /\ ng = 1 => IsShouldGroup(Must[NTopics + 1])
            /\ \A j \in 1..NFilters : Must[NTopics + ng + j] = filter_query.must[j]

C3_Witness ==
    /\ QueryDone
    /\ NTopics = 2 /\ topics.v[1] # topics.v[2]
    /\ Truthy(regions)
    /\ NFilters = 2 /\ filter_query.must[1] # filter_query.must[2]
    /\ Len(Must) = 5

\* The region terms of the call: the regions as given or, with
\* resolve_hierarchy, the concatenated expansions.
AllRegionTerms ==
    IF resolve_hierarchy /\ Truthy(regions)
    THEN extend_all(regions.v, expansion, 1)
    ELSE regions.v

\* C4: all region terms go into exactly one should-group, one entry of the
\* must list, with one phrase-match clause per term in term order; when no
\* region is given there is no region group, and a topics-only call yields
\* exactly one must entry per topic.
C4_OneRegionGroup ==
    QueryDone =>
        IF Truthy(regions)
        THEN /\ Cardinality(GroupPositions) = 1
             /\ \A g \in GroupPositions :
                   LET should == Must[g].bool.should
                   IN  /\ Len(should) <= Len(AllRegionTerms)
                       /\ \A i \in 1..Len(should) : IsPhraseMatch(should[i], AllRegionTerms[i])
                       /\ ~resolve_hierarchy => Len(should) = Len(AllRegionTerms)
        ELSE /\ GroupPositions = {}
             /\ NFilters = 0 => Len(Must) = NTopics

\* C5 as stated: with resolve_hierarchy the number n of region terms in the
\* group satisfies 2*n + len(topics) <= 1024 for any topics; a full
\* expansion within the bound is kept whole, otherwise the first n terms are
\* kept.
KeptTerms ==
    LET should == Must[CHOOSE g \in GroupPositions : TRUE].bool.should
    IN  [i \in 1..Len(should) |-> should[i].multi_match.query]

ResolveDone == QueryDone /\ resolve_hierarchy /\ Truthy(regions)

C5_CapForAnyTopics ==
    ResolveDone =>
        /\ 2 * Len(KeptTerms) + NTopics <= OSQueryLimit
        /\ 2 * Len(AllRegionTerms) + NTopics <= OSQueryLimit => KeptTerms = AllRegionTerms
        /\ KeptTerms = SubSeq(AllRegionTerms, 1, Len(KeptTerms))

\* C5 (amended): the same, for topics lists of at most 1024 entries; with
\* more topics the kept terms are still a prefix of the expansion.
C5_CapUpToLimitTopics ==
    ResolveDone =>
        /\ NTopics <= OSQueryLimit => 2 * Len(KeptTerms) + NTopics <= OSQueryLimit
        /\ 2 * Len(AllRegionTerms) + NTopics <= OSQueryLimit => KeptTerms = AllRegionTerms
        /\ KeptTerms = SubSeq(AllRegionTerms, 1, Len(KeptTerms))

\* An expansion that is cut: some terms kept, some dropped.
C5_Witness ==
    /\ ResolveDone
    /\ NTopics > 0 /\ NTopics <= OSQueryLimit
    /\ 2 * Len(AllRegionTerms) + NTopics > OSQueryLimit
    /\ Len(KeptTerms) > 0
    /\ Len(KeptTerms) < Len(AllRegionTerms)

\* C6: a call with neither a non-empty topics list nor a non-empty regions
\* list raises the HTTPException with status 422 and the fixed detail, and
\* returns no query.
C6_NothingToSearchRaises ==
    (query_pc = "done" /\ ~Truthy(topics) /\ ~Truthy(regions)) =>
        /\ query_result.exc = "HTTPException"
        /\ query_result.status_code = 422
        /\ query_result.detail = "Please provide at least one region or topic."

\* An empty list beside a None.
C6_Witness ==
    /\ query_pc = "done"
    /\ topics = Some(<<>>) /\ regions = None
    /\ query_result.exc = "HTTPException"

\* C7: the clauses of filter_query's bool.must end the must list, unchanged
\* and in order; without a filter_query nothing is added to the topic clauses
\* and the region group; the arguments are as the caller passed them.
C7_FilterSplicedArgsKept ==
    query_pc = "done" =>
        /\ <<topics, regions, filter_query>> = passed_args
        /\ query_result.exc = "None" =>
              /\ Len(Must) >= NFilters
              /\ SubSeq(Must, Len(Must) - NFilters + 1, Len(Must))
                    = (IF NFilters = 0 THEN <<>> ELSE filter_query.must)
              /\ \A i \in 1..(Len(Must) - NFilters) :
                    DOMAIN Must[i] = {"multi_match"} \/ IsShouldGroup(Must[i])
              /\ ~filter_query.some =>
                    Len(Must) = NTopics + (IF regions.some THEN 1 ELSE 0)

C7_Witness ==
    /\ QueryDone
    /\ NFilters = 2 /\ filter_query.must[1] # filter_query.must[2]
    /\ NTopics > 0 /\ Truthy(regions)

-----------------------------------------------------------------------------
(* postprocess_query and search (document_stores/elastic.py) *)

\* A query-string text is a sequence of characters; a token of
\* special_characters is a string, that is a sequence of characters too.
special_characters ==
    {<<"+">>, <<"-">>, <<"=">>, <<"&", "&">>, <<"|", "|">>, <<"!">>, <<"{">>, <<"}">>,
     <<"[">>, <<"]">>, <<"^">>, <<"~">>, <<"*">>, <<"?">>, <<":">>,
     <<"\\", "\"">>,   \* r"\"" : a backslash and a double quote
     <<"/">>, <<">">>, <<"<">>}

\* set(text): the one-character strings of the text.
char_set(text) == {<<text[i]>> : i \in 1..Len(text)}

\* str.replace(c, repl) for a one-character c.
RECURSIVE replace(_, _, _)
replace(text, c, repl) ==
    IF text = <<>> THEN <<>>
    ELSE (IF Head(text) = c THEN repl ELSE <<Head(text)>>) \o replace(Tail(text), c, repl)

\* One turn of the loop, escaping the angle brackets like the other
\* characters (a variant).
escape_step_escapes_angles(query_str, character) ==
    replace(query_str, character[1], <<"\\">> \o character)

\* One turn of the loop over the intersection.
escape_step(query_str, character) ==
    IF character \in {<<">">>, <<"<">>}
    THEN replace(replace(query_str, ">", <<>>), "<", <<>>)
    ELSE replace(query_str, character[1], <<"\\">> \o character)

\* The loop, over the characters in the order the set yields them.
RECURSIVE escape_loop(_, _, _)
escape_loop(query_str, order, i) ==
    IF i > Len(order) THEN query_str
    ELSE escape_loop(escape_step(query_str, order[i]), order, i + 1)

\* A query: None, {"query_string": {"query": text}}, a query_string without
\* "query", or any other clause; wrapped when it sits under a "query" key.
NoQuery           == [kind |-> "none", wrapped |-> FALSE, text |-> <<>>]
QueryString(t, w) == [kind |-> "query_string", wrapped |-> w, text |-> t]
OtherQuery(k, w)  == [kind |-> k, wrapped |-> w, text |-> <<>>]

\* postprocess_query(query): the texts query["query_string"]["query"] can
\* hold when the call returns, one per order of the loop.  The dict is
\* changed in place and returned.
postprocess_query(query) ==
    IF query.kind # "query_string" THEN {query.text}
    ELSE LET intersection == char_set(query.text) \cap special_characters
         IN  IF Cardinality(intersection) > 0
             THEN {escape_loop(query.text, o, 1) : o \in Orders(intersection)}
             ELSE {query.text}

-----------------------------------------------------------------------------
(* Specification SpecSearch: searches made with one query object *)

TextChars == {"a", "+", "-", "&", "|", "\"", ">", "<", "\\"}
Texts     == UNION {[1..n -> TextChars] : n \in 0..MaxText}

InitSearch ==
    /\ es_query \in {NoQuery}
                    \cup {QueryString(t, w) : t \in Texts, w \in BOOLEAN}
                    \cup {OtherQuery(k, w) : k \in {"no_query_key", "other"}, w \in BOOLEAN}
    /\ es_input = <<>>
    /\ es_sent = [kind |-> "none", text |-> <<>>]
    /\ es_calls = 0
    /\ IdleDesc
    /\ IdleNames
    /\ IdleQuery
    /\ IdleParams
    /\ IdleRetrieval
    /\ IdleChildren
    /\ IdleWalk
    /\ IdleId
    /\ IdleConfig
    /\ IdleArticles

\* search(index, query): the clause under "query" is taken when there is
\* one, postprocess_query changes it in place, and it goes to the client.
\* The caller's object holds the changed text afterwards.
Search ==
    /\ es_calls < MaxSearches
    /\ \E text \in postprocess_query(es_query) :
          /\ es_sent' = [kind |-> es_query.kind, text |-> text]
          /\ es_query' = [es_query EXCEPT !.text = text]
    /\ es_input' = es_query.text
    /\ es_calls' = es_calls + 1
    /\ UNCHANGED <<descVars, namesVars, queryVars, paramVars, retrVars, childVars, walkVars, idVars, cfgVars, artVars>>

NextSearch == Search

SpecSearch == InitSearch /\ [][NextSearch]_vars

-----------------------------------------------------------------------------
(* C8, C9 *)

\* The reserved characters and tokens of the claim, without the two angle
\* brackets.
ReservedSingles ==
    {"+", "-", "=", "!", "{", "}", "[", "]", "^", "~", "*", "?", ":", "\"", "/"}
ReservedPairs == {<<"&", "&">>, <<"|", "|">>}

\* The text with a backslash before every occurrence of a reserved character
\* or token and without angle brackets, every other character kept.
RECURSIVE BackslashPrefixed(_)
BackslashPrefixed(t) ==
    IF t = <<>> THEN <<>>
    ELSE IF Len(t) >= 2 /\ SubSeq(t, 1, 2) \in ReservedPairs
         THEN <<"\\">> \o SubSeq(t, 1, 2) \o BackslashPrefixed(SubSeq(t, 3, Len(t)))
    ELSE IF Head(t) \in ReservedSingles
         THEN <<"\\", Head(t)>> \o BackslashPrefixed(Tail(t))
    ELSE IF Head(t) \in {"<", ">"} THEN BackslashPrefixed(Tail(t))
    ELSE <<Head(t)>> \o BackslashPrefixed(Tail(t))

Searched == es_calls > 0 /\ es_sent.kind = "query_string"

\* C8: postprocess_query puts a backslash before every occurrence of every
\* reserved character or token (+ - = && || ! { } [ ] ^ ~ * ? : " /) of the
\* query-string text and leaves the other characters as they are.
C8_EveryReservedTokenEscaped ==
    Searched => es_sent.text = BackslashPrefixed(es_input)

Count(t, c) == Cardinality({i \in 1..Len(t) : t[i] = c})

RECURSIVE Without(_, _)
Without(t, S) ==
    IF t = <<>> THEN <<>>
    ELSE (IF Head(t) \in S THEN <<>> ELSE <<Head(t)>>) \o Without(Tail(t), S)

\* The characters of the alphabet that the loop escapes.
EscapedChars == {c \in TextChars : <<c>> \in special_characters /\ c \notin {"<", ">"}}

\* C9: the output holds no '<' and no '>', no backslash is inserted for
\* them (the backslashes added are one per escaped character), and apart
\* from the added backslashes the output is the input without its angle
\* brackets.
C9_AngleBracketsStripped ==
    Searched =>
        /\ "<" \notin Range(es_sent.text)
        /\ ">" \notin Range(es_sent.text)
        /\ Count(es_sent.text, "\\") =
              Count(es_input, "\\") + Cardinality({i \in 1..Len(es_input) : es_input[i] \in EscapedChars})
        /\ Count(es_input, "\\") = 0 =>
              Without(es_sent.text, {"\\"}) = Without(es_input, {"<", ">"})
        /\ Range(es_input) \cap EscapedChars = {} =>
              es_sent.text = Without(es_input, {"<", ">"})

\* x>y<z: both brackets between plain characters.
C9_Witness ==
    /\ Searched
    /\ es_input = <<"a", ">", "<">>
    /\ es_sent.text = <<"a">>

-----------------------------------------------------------------------------
(* get_query_from_params (app/dependencies.py) *)

\* An optional string (a date, or None).
NoDate      == [some |-> FALSE, v |-> ""]
Date(d)     == [some |-> TRUE, v |-> d]
\* `if date_from`: None and the empty string are falsy.
TruthyStr(x) == x.some /\ x.v # ""

\* {"terms": {field: values}} and {"range": {"date": {bound: date}}}
terms_clause(field, values) == [terms |-> (field :> values)]
range_clause(bound, date)   == [range |-> [date |-> (bound :> date)]]

\* What the function returns: the filter, or None.
FilterNone     == [some |-> FALSE, bool |-> [must |-> <<>>]]
FilterOf(must) == [some |-> TRUE, bool |-> [must |-> must]]

\* The function with the two date clauses appended before the terms clauses
\* (a variant).
get_query_from_params_dates_first(article_types, authors, journals, date_from, date_to) ==
    LET must ==
            (IF TruthyStr(date_from)
                THEN <<range_clause("gte", date_from.v)>> ELSE <<>>)
         \o (IF TruthyStr(date_to)
                THEN <<range_clause("lte", date_to.v)>> ELSE <<>>)
         \o (IF Truthy(article_types)
                THEN <<terms_clause("article_type", article_types.v)>> ELSE <<>>)
         \o (IF Truthy(authors)
                THEN <<terms_clause("authors.keyword", authors.v)>> ELSE <<>>)
         \o (IF Truthy(journals)
                THEN <<terms_clause("journal", journals.v)>> ELSE <<>>)
    IN  IF must = <<>> THEN FilterNone ELSE FilterOf(must)

\* get_query_from_params(article_types, authors, journals, date_from,
\* date_to): these five are all its parameters; whatever else the request
\* carries (topics, regions) does not reach it.
get_query_from_params(article_types, authors, journals, date_from, date_to) ==
    LET must ==
            (IF Truthy(article_types)
                THEN <<terms_clause("article_type", article_types.v)>> ELSE <<>>)
         \o (IF Truthy(authors)
                THEN <<terms_clause("authors.keyword", authors.v)>> ELSE <<>>)
         \o (IF Truthy(journals)
                THEN <<terms_clause("journal", journals.v)>> ELSE <<>>)
         \o (IF TruthyStr(date_from)
                THEN <<range_clause("gte", date_from.v)>> ELSE <<>>)
         \o (IF TruthyStr(date_to)
                THEN <<range_clause("lte", date_to.v)>> ELSE <<>>)
    IN  IF must = <<>> THEN FilterNone ELSE FilterOf(must)

-----------------------------------------------------------------------------
(* Specification SpecParams: one request whose filter is built *)

\* A term is a list of words.
TopicLists  == {<< <<"pyramidal", "cells">>, <<"retina">> >>, << <<"retina">> >>}
RegionLists == {<< <<"brain", "region">>, <<"thalamus">> >>,
                << <<"thalamus">>, <<"Giant", "Hippopotamidae">> >>}

InitParams ==
    /\ request_params \in
          [topics        : {None} \cup {Some(l) : l \in TopicLists},
           regions       : {None} \cup {Some(l) : l \in RegionLists},
           article_types : {None, Some(<<>>), Some(<<"publication">>),
                            Some(<<"publication", "review">>)},
           authors       : {None, Some(<<"Guy Manderson", "Joe Guy">>)},
           journals      : {None, Some(<<"1111-1111">>)},
           date_from     : {NoDate, Date(""), Date("2020-01-01")},
           date_to       : {NoDate, Date("2020-01-02")}]
    /\ params_result = FilterNone
    /\ params_pc = "call"
    /\ IdleDesc
    /\ IdleNames
    /\ IdleQuery
    /\ IdleSearch
    /\ IdleRetrieval
    /\ IdleChildren
    /\ IdleWalk
    /\ IdleId
    /\ IdleConfig
    /\ IdleArticles

\* The dependency is resolved from the request: the five declared parameters
\* are read from it.
CallGetQueryFromParams ==
    /\ params_pc = "call"
    /\ params_result' =
          get_query_from_params(request_params.article_types, request_params.authors,
                                request_params.journals, request_params.date_from,
                                request_params.date_to)
    /\ params_pc' = "done"
    /\ UNCHANGED <<request_params, descVars, namesVars, queryVars, esVars, retrVars, childVars, walkVars, idVars, cfgVars, artVars>>

NextParams == CallGetQueryFromParams

SpecParams == InitParams /\ [][NextParams]_vars

-----------------------------------------------------------------------------
(* C10 *)

RECURSIVE JoinWith(_, _)
JoinWith(strs, sep) ==
    IF Len(strs) = 0 THEN ""
    ELSE IF Len(strs) = 1 THEN strs[1]
    ELSE strs[1] \o sep \o JoinWith(Tail(strs), sep)

\* A multi-word term is its words joined by AND inside parentheses.
TermText(term) ==
    IF Len(term) > 1 THEN "(" \o JoinWith(term, " AND ") \o ")" ELSE term[1]

GroupText(terms, op) ==
    "(" \o JoinWith([i \in 1..Len(terms) |-> TermText(terms[i])], op) \o ")"

\* The query-string text of the claim for the topics and regions of a request.
ClaimedQueryText(tp, rg) ==
    IF Truthy(tp) /\ Truthy(rg)
    THEN GroupText(tp.v, " AND ") \o " AND " \o GroupText(rg.v, " OR ")
    ELSE IF Truthy(tp) THEN GroupText(tp.v, " AND ")
    ELSE GroupText(rg.v, " OR ")

\* C10: when topics and/or regions are supplied, the first must entry of the
\* filter is one query_string clause over the field text whose query joins
\* the words of a term by AND in parentheses, the topics by AND, the regions
\* by OR and the two groups by AND.
C10_QueryStringClauseFirst ==
    (/\ params_pc = "done"
     /\ Truthy(request_params.topics) \/ Truthy(request_params.regions))
    => /\ params_result.some
       /\ Len(params_result.bool.must) >= 1
       /\ params_result.bool.must[1] =
             [query_string |->
                 [default_field |-> "text",
                  query |-> ClaimedQueryText(request_params.topics, request_params.regions)]]

-----------------------------------------------------------------------------
(* C11 *)

\* The facets of a request in the claimed order, each with whether it was
\* supplied (present and not empty) and the entry it stands for.
Facets(p) ==
    << [supplied |-> p.article_types.some /\ p.article_types.v # <<>>,
        entry    |-> [terms |-> [x \in {"article_type"} |-> p.article_types.v]]],
       [supplied |-> p.authors.some /\ p.authors.v # <<>>,
        entry    |-> [terms |-> [x \in {"authors.keyword"} |-> p.authors.v]]],
       [supplied |-> p.journals.some /\ p.journals.v # <<>>,
        entry    |-> [terms |-> [x \in {"journal"} |-> p.journals.v]]],
       [supplied |-> p.date_from.some /\ p.date_from.v # "",
        entry    |-> [range |-> [date |-> [x \in {"gte"} |-> p.date_from.v]]]],
       [supplied |-> p.date_to.some /\ p.date_to.v # "",
        entry    |-> [range |-> [date |-> [x \in {"lte"} |-> p.date_to.v]]]] >>

IsSupplied(f) == f.supplied

SuppliedEntries(p) ==
    LET kept == SelectSeq(Facets(p), IsSupplied)
    IN  [i \in 1..Len(kept) |-> kept[i].entry]

C11_WitnessEmpty ==
    /\ params_pc = "done"
    /\ request_params.article_types = Some(<<>>)
    /\ request_params.date_from = Date("")
    /\ ~request_params.authors.some
    /\ ~params_result.some

-----------------------------------------------------------------------------
(* The paragraphs of the index, and the document store's bm25_search *)

\* An optional journal issn (context["journal"] can be None).
NoJournal     == [some |-> FALSE, v |-> ""]
Journal(issn) == [some |-> TRUE, v |-> issn]

\* Null and present values of the optional fields of a record.
NullStr   == [some |-> FALSE, v |-> ""]
Str(x)    == [some |-> TRUE, v |-> x]
NullNum   == [some |-> FALSE, v |-> 0]
Num(n)    == [some |-> TRUE, v |-> n]

\* The paragraphs the index can hold: two paragraphs of one article and a
\* long paragraph of an article without journal.
Paragraphs ==
    { [article_id |-> "ID12345", doi |-> "10.1/12345", journal |-> Journal("1234-5678"),
       document_id |-> "abc", title |-> "Very important article", text |-> "bbb"],
      [article_id |-> "ID12345", doi |-> "10.1/12345", journal |-> Journal("1234-5678"),
       document_id |-> "def", title |-> "Very important article", text |-> "cc"],
      [article_id |-> "ID67890", doi |-> "10.1/67890", journal |-> NoJournal,
       document_id |-> "ghi", title |-> "Another article", text |-> "bbbbbb"] }

\* The rankings of at most n distinct paragraphs.
Rankings(n) ==
    UNION {Orders(S) : S \in {T \in SUBSET Paragraphs : Cardinality(T) <= n}}

\* bm25_search asks the engine for size=k hits: the k best ranked ones, in
\* rank order; a missing index raises RuntimeError.
bm25_search(store, k) ==
    IF ~store.ok THEN [exc |-> "RuntimeError", hits |-> <<>>]
    ELSE [exc |-> "None",
          hits |-> SubSeq(store.hits, 1, IF k < Len(store.hits) THEN k ELSE Len(store.hits))]

-----------------------------------------------------------------------------
(* RetrievalService.arun (scholarag/services/retrieval.py) *)

\* The hits without those whose text is longer than max_length, in order.
RECURSIVE drop_long(_, _)
drop_long(hits, max_length) ==
    IF hits = <<>> THEN <<>>
    ELSE IF Len(Head(hits).text) > max_length
         THEN drop_long(Tail(hits), max_length)
         ELSE <<Head(hits)>> \o drop_long(Tail(hits), max_length)

\* arun(ds_client, query, retriever_k, db_filter, max_length): the BM25 hits
\* for retriever_k, post-filtered on the text length; an error of the store
\* propagates.
arun(store, kwargs) ==
    LET found == bm25_search(store, kwargs.retriever_k)
    IN  IF found.exc # "None" THEN found
        ELSE [exc |-> "None", hits |-> drop_long(found.hits, kwargs.max_length)]

-----------------------------------------------------------------------------
(* CohereRerankingService.rerank (scholarag/services) *)

\* The relevance score the external scorer gives to the document it ranks
\* r-th: the scorer answers with its results sorted by descending relevance.
relevance_score(r) == 100 - (3 * r)

\* What the scorer can answer for n documents: every ranking of the indices
\* 0..n-1, each result holding the index of its document in the request.
ScorerResults(n) ==
    {[r \in 1..n |-> [index |-> order[r], relevance_score |-> relevance_score(r)]]
        : order \in Orders(0..(n - 1))}

\* rerank(query, contexts, reranker_k) for one answer of the scorer: the
\* first reranker_k results (all of them when there are fewer), as four
\* parallel sequences.
rerank_of(contexts, reranker_k, results) ==
    LET k == IF reranker_k < Len(results) THEN reranker_k ELSE Len(results)
        indices == [i \in 1..k |-> results[i].index]
    IN  [exc |-> "None",
         contexts |-> [i \in 1..k |-> contexts[indices[i] + 1]],
         texts    |-> [i \in 1..k |-> contexts[indices[i] + 1].text],
         scores   |-> [i \in 1..k |-> results[i].relevance_score],
         indices  |-> indices]

\* The call to the scorer failed: the error leaves rerank.
RerankRaised == [exc |-> "ApiError"]

\* The outcomes of rerank: one per answer of the scorer, and the failure of
\* the call.
rerank(kwargs) ==
    {rerank_of(kwargs.contexts, kwargs.reranker_k, results)
        : results \in ScorerResults(Len(kwargs.contexts))}
    \cup {RerankRaised}

-----------------------------------------------------------------------------
(* get_reranker (app/dependencies.py) *)

\* `if settings.reranking.cohere_token`: the service when a token is set,
\* else a warning is logged and None is yielded.
get_reranker(settings) ==
    IF settings.reranking.cohere_token.some /\ settings.reranking.cohere_token.v # ""
    THEN "CohereRerankingService"
    ELSE "None"

-----------------------------------------------------------------------------
(* MetaDataRetriever.retrieve_metadata (scholarag/retrieve_metadata.py) *)

\* What the providers know.
AbstractOf(article_id) ==
    IF article_id = "ID12345" THEN Str("Great abstract") ELSE NullStr
JournalNameOf(journal) ==
    IF journal = Journal("1234-5678") THEN Str("journalname1") ELSE NullStr
ImpactFactorOf(journal) ==
    IF journal = Journal("1234-5678") THEN Num(56) ELSE NullNum
CitationCountOf(doi) ==
    IF doi = "10.1/12345" THEN Num(12) ELSE NullNum

\* A mapping holds an entry, with what the provider knows, for some of the
\* keys asked for: a lookup that failed or was not made leaves no entry.
Mappings(known) ==
    {[key \in held |-> known[key]] : held \in SUBSET (DOMAIN known)}

NoMapping        == [some |-> FALSE, v |-> <<>>]
SomeMapping(m)   == [some |-> TRUE, v |-> m]

\* retrieve_metadata(contexts, to_retrieve=["abstracts"]): the results by
\* the name of the function that fetched them.
retrieve_abstracts(contexts) ==
    {[recreate_abstract |-> m]
        : m \in Mappings([id \in {contexts[i].article_id : i \in 1..Len(contexts)}
                              |-> AbstractOf(id)])}

\* retrieve_metadata(contexts, to_retrieve=["citation_counts",
\* "impact_factors", "journal_names"]): the journal names and the citation
\* counts come from external APIs and are fetched only when the retriever was
\* made with external_apis; the impact factors come from the document store.
retrieve_external(metadata_retriever, contexts) ==
    LET journals == {contexts[i].journal : i \in 1..Len(contexts)}
        dois     == {contexts[i].doi : i \in 1..Len(contexts)}
    IN  IF metadata_retriever.external_apis
        THEN {[get_citation_count |-> SomeMapping(c), get_journal_name |-> SomeMapping(j),
               get_impact_factors |-> f]
                : c \in Mappings([doi \in dois |-> CitationCountOf(doi)]),
                  j \in Mappings([issn \in journals |-> JournalNameOf(issn)]),
                  f \in Mappings([issn \in journals |-> ImpactFactorOf(issn)])}
        ELSE {[get_citation_count |-> NoMapping, get_journal_name |-> NoMapping,
               get_impact_factors |-> f]
                : f \in Mappings([issn \in journals |-> ImpactFactorOf(issn)])}

-----------------------------------------------------------------------------
(* The retrieval endpoint (app/routers/retrieval.py) *)

NO_DB_ENTRIES == 1

\* mapping.get(key): None when the key is missing.
dict_get(mapping, key, null) ==
    IF key \in DOMAIN mapping THEN mapping[key] ELSE null

\* fetched.get(name, {}): the empty dict when the result is missing.
get_or_empty(fetched) == IF fetched.some THEN fetched.v ELSE <<>>

\* The outcomes of a request.
Responded(records) ==
    [status |-> 200, exc |-> "None", code |-> 0, records |-> records]
HTTPException(status_code, code) ==
    [status |-> status_code, exc |-> "HTTPException", code |-> code, records |-> <<>>]
\* An exception that the handler lets through: an internal server error
\* without error detail.
Unhandled(e) ==
    [status |-> 500, exc |-> e, code |-> 0, records |-> <<>>]

\* `if not contexts` taken for false whatever was retrieved (a variant).
no_contexts_never(contexts) == FALSE

\* `if not contexts`: nothing was retrieved.
no_contexts(contexts) == Len(contexts) = 0

\* The keyword arguments of rts.arun, with the service's own default for
\* max_length (a variant).
rts_arun_kwargs_default_length(request, settings) ==
    [query |-> request.query, retriever_k |-> request.retriever_k, max_length |-> 100000]

\* The keyword arguments of rts.arun.
rts_arun_kwargs(request, settings) ==
    [query        |-> request.query,
     retriever_k  |-> request.retriever_k,
     max_length   |-> settings.retrieval.max_length]

\* MetaDataRetriever(external_apis=settings.metadata.external_apis)
MetaDataRetriever_always_external(settings) == [external_apis |-> TRUE]

MetaDataRetriever(settings) == [external_apis |-> settings.metadata.external_apis]

\* {**context, "abstract": abstracts[context.get("article_id")]}
with_abstract(context, abstracts) ==
    [article_id  |-> context.article_id,
     doi         |-> context.doi,
     journal     |-> context.journal,
     document_id |-> context.document_id,
     title       |-> context.title,
     text        |-> context.text,
     abstract    |-> abstracts[context.article_id]]

\* The branch without reranking: indices = tuple(range(len(contexts))) and
\* scores = None.
passthrough_indices(contexts) == [i \in 1..Len(contexts) |-> i - 1]

\* The keyword arguments of rs.rerank, with retriever_k for reranker_k (a
\* variant).
rs_rerank_kwargs_retriever_k(request, contexts) ==
    [query |-> request.query, contexts |-> contexts, reranker_k |-> request.retriever_k]

\* The keyword arguments of rs.rerank.
rs_rerank_kwargs(request, contexts) ==
    [query |-> request.query, contexts |-> contexts, reranker_k |-> request.reranker_k]

skip_reranker_when_asked(rs, request) == rs = "None" \/ request.use_reranker

skip_reranker(rs, request) == rs = "None" \/ ~request.use_reranker

\* The ParagraphMetadata of the i-th context.
paragraph_metadata(i, context, indices, scores, journal_names, impact_factors, citedby_counts) ==
    [article_title   |-> context.title,
     paragraph       |-> context.text,
     journal_issn    |-> context.journal,
     article_id      |-> context.article_id,
     ds_document_id  |-> context.document_id,
     article_doi     |-> context.doi,
     context_id      |-> indices[i],
     reranking_score |-> IF scores.some THEN Num(scores.v[i]) ELSE NullNum,
     abstract        |-> context.abstract,
     journal_name    |-> dict_get(journal_names, context.journal, NullStr),
     impact_factor   |-> impact_factors[context.journal],
     cited_by        |-> dict_get(citedby_counts, context.doi, NullNum)]

\* The loop over enumerate(contexts); impact_factors[journal_issn] raises
\* KeyError for a journal the mapping does not hold.
fuse_last_first(contexts, indices, scores, fetched_metadata) ==
    LET citedby_counts == get_or_empty(fetched_metadata.get_citation_count)
        journal_names  == get_or_empty(fetched_metadata.get_journal_name)
        impact_factors == fetched_metadata.get_impact_factors
        n == Len(contexts)
    IN  IF \E i \in 1..n : contexts[i].journal \notin DOMAIN impact_factors
        THEN Unhandled("KeyError")
        ELSE Responded([i \in 1..n |->
                paragraph_metadata(n + 1 - i, contexts[n + 1 - i], indices, scores,
                                   journal_names, impact_factors, citedby_counts)])

fuse(contexts, indices, scores, fetched_metadata) ==
    LET citedby_counts == get_or_empty(fetched_metadata.get_citation_count)
        journal_names  == get_or_empty(fetched_metadata.get_journal_name)
        impact_factors == fetched_metadata.get_impact_factors
    IN  IF \E i \in 1..Len(contexts) : contexts[i].journal \notin DOMAIN impact_factors
        THEN Unhandled("KeyError")
        ELSE Responded([i \in 1..Len(contexts) |->
                paragraph_metadata(i, contexts[i], indices, scores,
                                   journal_names, impact_factors, citedby_counts)])

-----------------------------------------------------------------------------
(* Specification SpecRetrieval: one request to the retrieval endpoint *)

\* settings.misc.query_max_size: config.py's SettingsMisc declares no such
\* field, so reading it from a Settings of that class raises AttributeError;
\* the settings object handed to the endpoint through get_settings may
\* carry it.
NoSize  == [some |-> FALSE, v |-> 0]
Size(n) == [some |-> TRUE, v |-> n]

RetrievalSettings ==
    [misc      : [query_max_size : {NoSize, Size(5)}],
     retrieval : [max_length : {4, 100000}],
     metadata  : [external_apis : BOOLEAN],
     reranking : [cohere_token : {NullStr, Str("blabla")}]]

RetrievalRequests ==
    [query        : {"aaa", "aaaaaaa"},
     retriever_k  : 1..MaxHits,
     use_reranker : BOOLEAN,
     reranker_k   : 1..MaxHits]

InitRetrieval ==
    /\ rt_settings \in RetrievalSettings
    /\ rt_request \in RetrievalRequests
    /\ rt_store \in {[ok |-> FALSE, hits |-> <<>>]}
                    \cup {[ok |-> TRUE, hits |-> h] : h \in Rankings(MaxHits)}
    /\ rt_rs = get_reranker(rt_settings)
    /\ rt_retrieved = <<>>
    /\ rt_contexts = <<>>
    /\ rt_scores = [some |-> FALSE, v |-> <<>>]
    /\ rt_indices = <<>>
    /\ rt_reranked = [exc |-> "NotCalled"]
    /\ rt_abstracts = <<>>
    /\ rt_metadata = <<>>
    /\ rt_calls = <<>>
    /\ rt_response = [status |-> 0, exc |-> "NotCalled", code |-> 0, records |-> <<>>]
    /\ rt_pc = "arun"
    /\ IdleDesc
    /\ IdleNames
    /\ IdleQuery
    /\ IdleSearch
    /\ IdleParams
    /\ IdleChildren
    /\ IdleWalk
    /\ IdleId
    /\ IdleConfig
    /\ IdleArticles

otherVars == <<descVars, namesVars, queryVars, esVars, paramVars, childVars, walkVars, idVars, cfgVars, artVars>>

Finish(response) ==
    /\ rt_response' = response
    /\ rt_pc' = "done"

\* Lines 96-120: the check of the query's length, the call to rts.arun and
\* the check that it found something.
retrieval_arun ==
    /\ rt_pc = "arun"
    /\ IF ~rt_settings.misc.query_max_size.some
       THEN /\ Finish(Unhandled("AttributeError"))
            /\ UNCHANGED <<rt_retrieved, rt_contexts, rt_calls>>
       ELSE IF Len(rt_request.query) > rt_settings.misc.query_max_size.v
       THEN /\ Finish(HTTPException(413, 0))
            /\ UNCHANGED <<rt_retrieved, rt_contexts, rt_calls>>
       ELSE LET found == arun(rt_store, rts_arun_kwargs(rt_request, rt_settings))
            IN  /\ rt_calls' = Append(rt_calls, "rts.arun")
                /\ IF found.exc # "None"
                   THEN /\ Finish(Unhandled(found.exc))
                        /\ UNCHANGED <<rt_retrieved, rt_contexts>>
                   ELSE /\ rt_retrieved' = found.hits
                        /\ rt_contexts' = found.hits
                        /\ IF no_contexts(found.hits)
                           THEN Finish(HTTPException(500, NO_DB_ENTRIES))
                           ELSE /\ rt_pc' = "abstracts"
                                /\ UNCHANGED rt_response
    /\ UNCHANGED <<rt_settings, rt_request, rt_store, rt_rs, rt_scores, rt_indices,
                   rt_reranked, rt_abstracts, rt_metadata, otherVars, childVars, walkVars, idVars, cfgVars, artVars>>

\* Lines 123-137: the abstracts are fetched and added to the contexts;
\* abstracts[article_id] raises KeyError for an article the mapping does not
\* hold.
retrieval_abstracts ==
    /\ rt_pc = "abstracts"
    /\ \E fetched_abstracts \in retrieve_abstracts(rt_contexts) :
          LET abstracts == fetched_abstracts.recreate_abstract
          IN  /\ rt_calls' = Append(rt_calls, "retrieve_metadata(abstracts)")
              /\ rt_abstracts' = abstracts
              /\ IF \E i \in 1..Len(rt_contexts) :
                        rt_contexts[i].article_id \notin DOMAIN abstracts
                 THEN /\ Finish(Unhandled("KeyError"))
                      /\ UNCHANGED rt_contexts
                 ELSE /\ rt_contexts' = [i \in 1..Len(rt_contexts) |->
                                            with_abstract(rt_contexts[i], abstracts)]
                      /\ rt_pc' = "rerank"
                      /\ UNCHANGED rt_response
    /\ UNCHANGED <<rt_settings, rt_request, rt_store, rt_rs, rt_retrieved, rt_scores,
                   rt_indices, rt_reranked, rt_metadata, otherVars, childVars, walkVars, idVars, cfgVars, artVars>>

\* Lines 139-147: the contexts are reranked when a reranker is there and the
\* request asks for it; an error of rs.rerank is not caught.
retrieval_rerank ==
    /\ rt_pc = "rerank"
    /\ IF skip_reranker(rt_rs, rt_request)
       THEN /\ rt_indices' = passthrough_indices(rt_contexts)
            /\ rt_scores' = [some |-> FALSE, v |-> <<>>]
            /\ rt_pc' = "metadata"
            /\ UNCHANGED <<rt_contexts, rt_reranked, rt_calls, rt_response>>
       ELSE \E reranked \in rerank(rs_rerank_kwargs(rt_request, rt_contexts)) :
              /\ rt_calls' = Append(rt_calls, "rs.rerank")
              /\ rt_reranked' = reranked
              /\ IF reranked.exc # "None"
                 THEN /\ Finish(Unhandled(reranked.exc))
                      /\ UNCHANGED <<rt_contexts, rt_scores, rt_indices>>
                 ELSE /\ rt_contexts' = reranked.contexts
                      /\ rt_scores' = [some |-> TRUE, v |-> reranked.scores]
                      /\ rt_indices' = reranked.indices
                      /\ rt_pc' = "metadata"
                      /\ UNCHANGED rt_response
    /\ UNCHANGED <<rt_settings, rt_request, rt_store, rt_rs, rt_retrieved,
                   rt_abstracts, rt_metadata, otherVars, childVars, walkVars, idVars, cfgVars, artVars>>

\* Lines 149-186: the other metadata are fetched and one ParagraphMetadata
\* is made per context.
retrieval_fuse ==
    /\ rt_pc = "metadata"
    /\ \E fetched_metadata \in retrieve_external(MetaDataRetriever(rt_settings), rt_contexts) :
          /\ rt_calls' = Append(rt_calls, "retrieve_metadata(external)")
          /\ rt_metadata' = fetched_metadata
          /\ Finish(fuse(rt_contexts, rt_indices, rt_scores, fetched_metadata))
    /\ UNCHANGED <<rt_settings, rt_request, rt_store, rt_rs, rt_retrieved, rt_contexts,
                   rt_scores, rt_indices, rt_reranked, rt_abstracts, otherVars, childVars, walkVars, idVars, cfgVars, artVars>>

NextRetrieval ==
    \/ retrieval_arun
    \/ retrieval_abstracts
    \/ retrieval_rerank
    \/ retrieval_fuse

SpecRetrieval == InitRetrieval /\ [][NextRetrieval]_vars

-----------------------------------------------------------------------------
(* C12 *)

\* rts.arun was called and returned.
ArunReturned ==
    /\ rt_calls # <<>>
    /\ rt_store.ok

\* The hits the store's search gives for the request: the retriever_k best
\* ranked paragraphs.
SearchHits ==
    [i \in 1..(IF rt_request.retriever_k < Len(rt_store.hits)
               THEN rt_request.retriever_k ELSE Len(rt_store.hits)) |-> rt_store.hits[i]]

\* C12: what arun returns is exactly the hits of the search whose text is
\* not longer than max_length, each as the store gave it and in the store's
\* order; it can be shorter than retriever_k, and empty.
C12_OnlyLongHitsDropped ==
    ArunReturned =>
        LET Fits(hit) == Len(hit.text) <= rt_settings.retrieval.max_length
        IN  rt_retrieved = SelectSeq(SearchHits, Fits)

\* A long hit ranked between two short ones is dropped and the two others stay
\* in their order.
C12_Witness ==
    /\ ArunReturned
    /\ rt_request.retriever_k = 3
    /\ Len(SearchHits) = 3
    /\ Len(SearchHits[2].text) > rt_settings.retrieval.max_length
    /\ rt_retrieved = <<SearchHits[1], SearchHits[3]>>

\* The only hit is too long: arun returns the empty list.
C12_WitnessEmpty ==
    /\ ArunReturned
    /\ Len(SearchHits) = 1
    /\ rt_retrieved = <<>>

-----------------------------------------------------------------------------
(* C13 *)

\* rs.rerank was called and returned.
RerankReturned == rt_reranked.exc = "None"

\* The contexts rs.rerank was called with: the retrieved ones, each with its
\* abstract.
RerankInput ==
    [i \in 1..Len(rt_retrieved) |-> with_abstract(rt_retrieved[i], rt_abstracts)]

\* The four sequences describe, position by position, one context of the
\* input, and the scores do not increase.
Aligned(out, input) ==
    /\ Len(out.texts) = Len(out.contexts)
    /\ Len(out.scores) = Len(out.contexts)
    /\ Len(out.indices) = Len(out.contexts)
    /\ \A i \in 1..Len(out.contexts) :
          /\ out.indices[i] \in 0..(Len(input) - 1)
          /\ out.contexts[i] = input[out.indices[i] + 1]
          /\ out.texts[i] = input[out.indices[i] + 1].text
    /\ \A i, j \in 1..Len(out.scores) : i < j => out.scores[i] >= out.scores[j]
    /\ \A i, j \in 1..Len(out.indices) : i # j => out.indices[i] # out.indices[j]

-----------------------------------------------------------------------------
(* C14 *)

\* The endpoint answered with records.
Answered == rt_pc = "done" /\ rt_response.status = 200

\* The record is the one of the context: its title, text and identifiers.
RecordOf(record, context) ==
    /\ record.article_title = context.title
    /\ record.paragraph = context.text
    /\ record.article_id = context.article_id
    /\ record.article_doi = context.doi
    /\ record.ds_document_id = context.document_id
    /\ record.journal_issn = context.journal

\* C14: the answer holds one record per context of the final list, in its
\* order: record i is the one of context i, its context_id is indices[i] and
\* its reranking_score is scores[i].
C14_OneRecordPerContextInOrder ==
    Answered =>
        /\ Len(rt_response.records) = Len(rt_contexts)
        /\ \A i \in 1..Len(rt_contexts) :
              /\ RecordOf(rt_response.records[i], rt_contexts[i])
              /\ rt_response.records[i].context_id = rt_indices[i]
              /\ rt_scores.some =>
                    rt_response.records[i].reranking_score = Num(rt_scores.v[i])

\* A reranked answer of two records out of three retrieved contexts, the
\* third one first.
C14_Witness ==
    /\ Answered
    /\ rt_reranked.exc = "None"
    /\ Len(rt_retrieved) = 3
    /\ Len(rt_response.records) = 2
    /\ rt_response.records[1].context_id = 2
    /\ rt_response.records[2].context_id = 0
    /\ rt_response.records[1].paragraph # rt_response.records[2].paragraph
    /\ rt_response.records[1].reranking_score.v > rt_response.records[2].reranking_score.v

-----------------------------------------------------------------------------
(* C15 *)

\* C15: a key that a metadata mapping does not hold (the article_id in the
\* abstracts, the journal in the journal names and the impact factors, the
\* doi in the citation counts) gives null in the field of the record, and
\* never a KeyError.
C15_MissingKeyYieldsNull ==
    /\ rt_response.exc # "KeyError"
    /\ Answered =>
          \A i \in 1..Len(rt_contexts) :
             LET context == rt_contexts[i]
                 record  == rt_response.records[i]
             IN  /\ context.article_id \notin DOMAIN rt_abstracts
                       => record.abstract = NullStr
                 /\ context.journal \notin DOMAIN get_or_empty(rt_metadata.get_journal_name)
                       => record.journal_name = NullStr
                 /\ context.journal \notin DOMAIN rt_metadata.get_impact_factors
                       => record.impact_factor = NullNum
                 /\ context.doi \notin DOMAIN get_or_empty(rt_metadata.get_citation_count)
                       => record.cited_by = NullNum

-----------------------------------------------------------------------------
(* C16 *)

\* No Cohere credential is configured, or the request does not ask for
\* reranking.
NoRerankingAsked ==
    \/ ~rt_settings.reranking.cohere_token.some
    \/ ~rt_request.use_reranker

\* The handler is past the reranking branch.
PastReranking == rt_pc = "metadata" \/ rt_metadata # <<>>

\* C16: without a credential get_reranker yields None; without a reranker,
\* or when the request does not ask for reranking, rs.rerank is not called,
\* the contexts stay the retrieved ones in retrieval order, and every record
\* of the answer has a null reranking_score and its position as context_id.
C16_PassThroughWithoutReranker ==
    /\ (rt_pc # "idle" /\ ~rt_settings.reranking.cohere_token.some) => rt_rs = "None"
    /\ (NoRerankingAsked /\ PastReranking) =>
          /\ \A c \in 1..Len(rt_calls) : rt_calls[c] # "rs.rerank"
          /\ rt_contexts = RerankInput
          /\ ~rt_scores.some
          /\ rt_indices = [i \in 1..Len(rt_retrieved) |-> i - 1]
    /\ (NoRerankingAsked /\ Answered) =>
          /\ Len(rt_response.records) = Len(rt_retrieved)
          /\ \A i \in 1..Len(rt_retrieved) :
                /\ RecordOf(rt_response.records[i], rt_retrieved[i])
                /\ rt_response.records[i].reranking_score = NullNum
                /\ rt_response.records[i].context_id = i - 1

\* A request that asks for reranking while no credential is configured is
\* answered with three records.
C16_Witness ==
    /\ Answered
    /\ rt_request.use_reranker
    /\ ~rt_settings.reranking.cohere_token.some
    /\ Len(rt_response.records) = 3
    /\ rt_response.records[3].context_id = 2

\* A request that does not ask for reranking while a reranker is there.
C16_WitnessNotAsked ==
    /\ Answered
    /\ ~rt_request.use_reranker
    /\ rt_rs = "CohereRerankingService"
    /\ Len(rt_response.records) = 2

-----------------------------------------------------------------------------
(* C17 *)

\* The call to the external scorer failed during rs.rerank.
RerankFailed == rt_reranked = RerankRaised

\* C17: when the reranking call fails the request does not fail with it: the
\* handler goes on with the retrieved contexts in retrieval order and null
\* scores, and the answer it gives has null reranking scores.
C17_RerankFailureDegrades ==
    RerankFailed =>
        /\ rt_response.exc \in {"NotCalled", "None"}
        /\ rt_contexts = RerankInput
        /\ ~rt_scores.some
        /\ Answered => \A i \in 1..Len(rt_response.records) :
                          rt_response.records[i].reranking_score = NullNum

-----------------------------------------------------------------------------
(* C18 *)

\* rts.arun returned no context.
NothingRetrieved ==
    /\ rt_pc # "arun"
    /\ ArunReturned
    /\ rt_retrieved = <<>>

\* The call to the store failed.
StoreFailed == rt_calls # <<>> /\ ~rt_store.ok

\* The query is longer than the endpoint accepts.
BadInput ==
    /\ rt_pc = "done"
    /\ rt_settings.misc.query_max_size.some
    /\ Len(rt_request.query) > rt_settings.misc.query_max_size.v

\* C18: when rts.arun returns no context the request ends at once with the
\* error detail code 1 (NO_DB_ENTRIES) and no other call to a collaborator
\* has been made; a failed store call and a bad input end differently, so code
\* 1 is the outcome of this case only.
C18_NoDocumentEntries ==
    /\ NothingRetrieved =>
          /\ rt_pc = "done"
          /\ rt_response.exc = "HTTPException"
          /\ rt_response.status = 500
          /\ rt_response.code = 1
          /\ rt_calls = <<"rts.arun">>
    /\ StoreFailed => (rt_pc = "done" /\ rt_response.code # 1)
    /\ BadInput => (rt_response.code # 1 /\ rt_response.status # 500)
    /\ (rt_pc = "done" /\ rt_response.code = 1) => NothingRetrieved

\* The store found one paragraph for the query, which is too long.
C18_Witness ==
    /\ NothingRetrieved
    /\ Len(SearchHits) = 1
    /\ Len(SearchHits[1].text) > rt_settings.retrieval.max_length
    /\ rt_response.code = 1
    /\ rt_response.status = 500

\* The store found nothing.
C18_WitnessNoHit ==
    /\ NothingRetrieved
    /\ rt_store.hits = <<>>
    /\ rt_response.code = 1

-----------------------------------------------------------------------------
(* C19 *)

ExternalApisDisabled == ~rt_settings.metadata.external_apis

\* C19: with the external metadata disabled every record of the answer has
\* a null journal_name and a null cited_by, while the abstracts were fetched
\* and every record carries the abstract found for its article_id.
C19_NoExternalMetadata ==
    (ExternalApisDisabled /\ Answered) =>
        /\ \E c \in 1..Len(rt_calls) : rt_calls[c] = "retrieve_metadata(abstracts)"
        /\ \A i \in 1..Len(rt_response.records) :
              LET record == rt_response.records[i]
              IN  /\ record.journal_name = NullStr
                  /\ record.cited_by = NullNum
                  /\ record.article_id \in DOMAIN rt_abstracts
                  /\ record.abstract = rt_abstracts[record.article_id]

\* An answer without external metadata whose record has an abstract, for an
\* article whose journal name and citation count the providers know.
C19_Witness ==
    /\ ExternalApisDisabled
    /\ Answered
    /\ Len(rt_response.records) = 2
    /\ rt_response.records[1].abstract = Str("Great abstract")
    /\ JournalNameOf(rt_response.records[1].journal_issn) # NullStr
    /\ CitationCountOf(rt_response.records[1].article_doi) # NullNum

-----------------------------------------------------------------------------
(* C20 *)

\* The hierarchy file was read and none of its region names is the input
\* name, letter case apart.
UnknownName ==
    /\ names_pc = "done"
    /\ hierarchy_file.status = "ok"
    /\ MatchingIds(hierarchy_file, incoming_region) = {}

\* C20: for a name that is the name of no region of the hierarchy, compared
\* without letter case, get_descendants_names returns the list holding just
\* the input name, with the letter case it was given in.
C20_UnknownNameReturnedAsGiven ==
    UnknownName =>
        /\ names_result.exc = "None"
        /\ names_result.val = <<incoming_region>>

\* A capitalised name asked of a hierarchy that names other regions.
C20_Witness ==
    /\ UnknownName
    /\ incoming_region = <<"A", "B">>
    /\ 1 \in DOMAIN hierarchy_file.names
    /\ 2 \in DOMAIN hierarchy_file.names
    /\ names_result.val = << <<"A", "B">> >>

-----------------------------------------------------------------------------
(* C29 *)

\* C29: descendants of a collection of ids of the hierarchy, be it a list or
\* a set, returns the union of the descendants of its members.
C29_AnyCollectionAccepted ==
    (/\ desc_pc = "done"
     /\ ids.kind \in {"list", "set"}
     /\ ids.coll \subseteq HierarchyIds)
    => /\ desc_result.exc = "None"
       /\ desc_result.val = Closure(children_ids, ids.coll)

-----------------------------------------------------------------------------
(* C30 *)

\* C30: with a query_string query, a search made after another one with the
\* same query object sends the engine the text the one before it sent.
C30_SearchIsRepeatable ==
    [][(es_calls >= 1 /\ es_query.kind = "query_string")
          => es_sent'.text = es_sent.text]_vars

-----------------------------------------------------------------------------
(* C25 *)

\* C25: with a hierarchy file that is missing or corrupt,
\* get_descendants_names does not raise and returns the list holding the
\* input name.
C25_HierarchyFailureAbsorbed ==
    (/\ names_pc = "done"
     /\ hierarchy_file.status \in {"missing", "corrupt"})
    => /\ names_result.exc = "None"
       /\ names_result.val = <<incoming_region>>

-----------------------------------------------------------------------------
(* Specification SpecChildren: one call of RegionMeta.children *)

\* children(region_id) as a call: the subscript children_ids[region_id]
\* raises KeyError for an id that is no key, and the list found is returned
\* as a tuple in its stored order.  With .get(region_id, []) in place of the
\* subscript (a variant):
RegionMeta_children_get(cids, region_id) ==
    IF region_id \notin DOMAIN cids THEN [exc |-> "None", val |-> <<>>]
    ELSE [exc |-> "None", val |-> children(cids, region_id)]

RegionMeta_children(cids, region_id) ==
    IF region_id \notin DOMAIN cids THEN [exc |-> "KeyError", val |-> <<>>]
    ELSE [exc |-> "None", val |-> children(cids, region_id)]

InitChildren ==
    /\ chl_children_ids \in Hierarchies(MaxId)
    /\ chl_region \in ArgIds
    /\ chl_result = [exc |-> "NotCalled", val |-> <<>>]
    /\ chl_pc = "call"
    /\ IdleDesc
    /\ IdleNames
    /\ IdleQuery
    /\ IdleSearch
    /\ IdleParams
    /\ IdleRetrieval
    /\ IdleWalk
    /\ IdleId
    /\ IdleConfig
    /\ IdleArticles

CallChildren ==
    /\ chl_pc = "call"
    /\ chl_result' = RegionMeta_children(chl_children_ids, chl_region)
    /\ chl_pc' = "done"
    /\ UNCHANGED <<chl_children_ids, chl_region, descVars, namesVars, queryVars, esVars, paramVars, retrVars, walkVars, idVars, cfgVars, artVars>>

NextChildren == CallChildren

SpecChildren == InitChildren /\ [][NextChildren]_vars

-----------------------------------------------------------------------------
(* C22 *)

\* The ids whose parent is region_id: the keys that hold region_id in their
\* own child list are not looked at, only who lists whom.
DirectChildren(cids, region_id) ==
    {c \in DOMAIN cids : \E i \in 1..Len(cids[region_id]) : cids[region_id][i] = c}

IsLeaf(cids, region_id) ==
    region_id \in DOMAIN cids /\ cids[region_id] = <<>>

\* C22 (as stated): children(region_id) returns the direct children in
\* stored order, and the empty sequence, without raising, for a leaf id and
\* for an id unknown to the hierarchy.
C22_EmptyForLeafAndUnknown ==
    chl_pc = "done" =>
        /\ chl_result.exc = "None"
        /\ chl_region \in DOMAIN chl_children_ids
              => chl_result.val = chl_children_ids[chl_region]
        /\ (chl_region \notin DOMAIN chl_children_ids \/ IsLeaf(chl_children_ids, chl_region))
              => chl_result.val = <<>>

\* C22 (amended): for an id of the hierarchy children(region_id) returns the
\* direct children only, in stored order, which is the empty sequence for a
\* leaf; for an id unknown to the hierarchy it raises KeyError.
C22_ChildrenOfKnownIdElseKeyError ==
    chl_pc = "done" =>
        /\ chl_region \in DOMAIN chl_children_ids
              => /\ chl_result.exc = "None"
                 /\ chl_result.val = chl_children_ids[chl_region]
                 /\ Range(chl_result.val) = DirectChildren(chl_children_ids, chl_region)
                 /\ IsLeaf(chl_children_ids, chl_region) => chl_result.val = <<>>
        /\ chl_region \notin DOMAIN chl_children_ids
              => chl_result.exc = "KeyError"

\* An unknown id asked of a hierarchy that has a region with two children
\* stored in descending order.
C22_Witness ==
    /\ chl_pc = "done"
    /\ chl_region \notin DOMAIN chl_children_ids
    /\ chl_result.exc = "KeyError"
    /\ \E r \in DOMAIN chl_children_ids :
          /\ Len(chl_children_ids[r]) = 2
          /\ chl_children_ids[r][1] > chl_children_ids[r][2]

\* A region with two children stored in descending order.
C22_WitnessOrder ==
    /\ chl_pc = "done"
    /\ chl_region \in DOMAIN chl_children_ids
    /\ Len(chl_result.val) = 2
    /\ chl_result.val[1] > chl_result.val[2]

\* A leaf.
C22_WitnessLeaf ==
    /\ chl_pc = "done"
    /\ IsLeaf(chl_children_ids, chl_region)
    /\ chl_region # background_id
    /\ chl_result = [exc |-> "None", val |-> <<>>]

-----------------------------------------------------------------------------
(* Specification SpecWalk: RegionMeta.descendants, statement by statement *)

\* A live generator iter_descendants(region_id): its region and the position
\* in children(region_id) its for loop takes next.
Frame(region_id, i) == [region |-> region_id, next |-> i]

\* The for loop of a generator moves on to the next child; staying on the
\* same child (a variant):
same_child(frame) == frame

next_child(frame) == [frame EXCEPT !.next = frame.next + 1]

\* No hierarchy of the specification nests generators deeper than this; a
\* walk that would go deeper is not followed further.
MaxDepth == MaxWalkId + 2

WalkArgs ==
    {IntArg(i) : i \in 0..(MaxWalkId + 1)}
    \cup {SetArg(S) : S \in {T \in SUBSET (0..MaxWalkId) : Cardinality(T) <= MaxWalkSet}}

InitWalk ==
    /\ wk_children_ids \in Hierarchies(MaxWalkId)
    /\ wk_ids \in WalkArgs
    /\ wk_unique = {}
    /\ wk_stack = <<>>
    /\ wk_descendants = {}
    /\ wk_result = [exc |-> "NotCalled", val |-> {}]
    /\ wk_pc = "call"
    /\ IdleDesc
    /\ IdleNames
    /\ IdleQuery
    /\ IdleSearch
    /\ IdleParams
    /\ IdleRetrieval
    /\ IdleChildren
    /\ IdleId
    /\ IdleConfig
    /\ IdleArticles

walkOthers == <<descVars, namesVars, queryVars, esVars, paramVars, retrVars, childVars, idVars, cfgVars, artVars>>

\* unique_ids is bound from the argument and `descendants` starts empty.
walk_begin ==
    /\ wk_pc = "call"
    /\ wk_unique' = IF wk_ids.kind = "int" THEN {wk_ids.int} ELSE wk_ids.coll
    /\ wk_descendants' = {}
    /\ wk_pc' = "loop"
    /\ UNCHANGED <<wk_children_ids, wk_ids, wk_stack, wk_result, walkOthers>>

\* `for id_ in unique_ids`: the next id, in whatever order the set gives,
\* starts a generator, which yields it.
walk_next_id ==
    /\ wk_pc = "loop"
    /\ wk_stack = <<>>
    /\ \E id_ \in wk_unique :
          /\ wk_unique' = wk_unique \ {id_}
          /\ wk_stack' = <<Frame(id_, 1)>>
          /\ wk_descendants' = wk_descendants \cup {id_}
    /\ UNCHANGED <<wk_children_ids, wk_ids, wk_result, wk_pc, walkOthers>>

\* The innermost generator resumes: children(region_id) raises for an id
\* that is no key; with a child left it yields the child and delegates to
\* iter_descendants(child), which yields the child too; without it returns.
walk_resume ==
    /\ wk_pc = "loop"
    /\ wk_stack # <<>>
    /\ LET top == wk_stack[Len(wk_stack)]
           popped == SubSeq(wk_stack, 1, Len(wk_stack) - 1)
       IN  IF top.region \notin DOMAIN wk_children_ids
           THEN /\ wk_result' = Raised("KeyError")
                /\ wk_pc' = "done"
                /\ UNCHANGED <<wk_stack, wk_descendants>>
           ELSE IF top.next > Len(children(wk_children_ids, top.region))
           THEN /\ wk_stack' = popped
                /\ UNCHANGED <<wk_descendants, wk_result, wk_pc>>
           ELSE LET child == children(wk_children_ids, top.region)[top.next]
                IN  /\ Len(wk_stack) < MaxDepth
                    /\ wk_stack' = Append(Append(popped, next_child(top)), Frame(child, 1))
                    /\ wk_descendants' = wk_descendants \cup {child}
                    /\ UNCHANGED <<wk_result, wk_pc>>
    /\ UNCHANGED <<wk_children_ids, wk_ids, wk_unique, walkOthers>>

\* The for loop is exhausted: `return descendants`.
walk_return ==
    /\ wk_pc = "loop"
    /\ wk_stack = <<>>
    /\ wk_unique = {}
    /\ wk_result' = Returned(wk_descendants)
    /\ wk_pc' = "done"
    /\ UNCHANGED <<wk_children_ids, wk_ids, wk_unique, wk_stack, wk_descendants, walkOthers>>

NextWalk == walk_begin \/ walk_next_id \/ walk_resume \/ walk_return

SpecWalk == InitWalk /\ [][NextWalk]_vars

\* The interpreter keeps running the call: a statement that can run does.
SpecWalkFair == SpecWalk /\ WF_vars(NextWalk)

-----------------------------------------------------------------------------
(* C26 *)

WalkOfHierarchyIds ==
    /\ wk_pc = "call"
    /\ (IF wk_ids.kind = "int" THEN {wk_ids.int} ELSE wk_ids.coll) \subseteq DOMAIN wk_children_ids

\* The walk computes what the recursive definition gives.
WalkAgreesWithDescendants ==
    wk_pc = "done" => wk_result = descendants(wk_children_ids, wk_ids)

\* C26: on a hierarchy that is a tree, descendants called with an id or a set
\* of ids of the hierarchy terminates: the call returns.
C26_DescendantsTerminates ==
    WalkOfHierarchyIds ~> (wk_pc = "done" /\ wk_result.exc = "None")

\* A walk from the background down a chain three regions deep has returned
\* all four ids.
C26_Witness ==
    /\ wk_pc = "done"
    /\ wk_result.exc = "None"
    /\ wk_ids = IntArg(background_id)
    /\ wk_children_ids[1] = <<2>>
    /\ wk_children_ids[2] = <<3>>
    /\ wk_result.val = 0..MaxWalkId

\* A walk from a set of two ids has returned.
C26_WitnessSet ==
    /\ wk_pc = "done"
    /\ wk_result.exc = "None"
    /\ wk_ids.kind = "set"
    /\ Cardinality(wk_ids.coll) = 2
    /\ Cardinality(wk_result.val) >= 3

-----------------------------------------------------------------------------
(* Specification SpecId: one call of get_descendants_id *)

\* An identifier: an int, or a string given as its characters.
IntId(n) == [kind |-> "int", int |-> n, str |-> <<>>]
StrId(t) == [kind |-> "str", int |-> 0, str |-> t]

DigitValue(c) ==
    CASE c = "0" -> 0 [] c = "1" -> 1 [] c = "2" -> 2 [] c = "3" -> 3 [] c = "4" -> 4
      [] c = "5" -> 5 [] c = "6" -> 6 [] c = "7" -> 7 [] c = "8" -> 8 [] c = "9" -> 9

DigitChars == {"0", "1", "2", "3", "4", "5", "6", "7", "8", "9"}

\* The number written by a sequence of decimal digits.
RECURSIVE decimal(_)
decimal(digits) ==
    IF digits = <<>> THEN 0
    ELSE (10 * decimal(SubSeq(digits, 1, Len(digits) - 1))) + DigitValue(digits[Len(digits)])

\* int(x): an int is itself; a string is an optional sign followed by one or
\* more decimal digits, anything else raises ValueError.
int(x) ==
    IF x.kind = "int" THEN [exc |-> "None", val |-> x.int]
    ELSE LET signed == x.str # <<>> /\ Head(x.str) \in {"-", "+"}
             digits == IF signed THEN Tail(x.str) ELSE x.str
         IN  IF digits = <<>> \/ \E k \in 1..Len(digits) : digits[k] \notin DigitChars
             THEN [exc |-> "ValueError", val |-> 0]
             ELSE [exc |-> "None",
                   val |-> IF signed /\ Head(x.str) = "-" THEN 0 - decimal(digits)
                           ELSE decimal(digits)]

\* A file save_config wrote for a RegionMeta that has no root yet: it is
\* json, and its "root_id" is null.
NoRootFile == [status |-> "no_root", names |-> <<>>, children_ids |-> <<>>]

\* What RegionMeta.load_config raises on the file: open and json.load as in
\* file_error; on a null "root_id" the key conversion calls None.items().
load_config_error(file) ==
    IF file.status = "no_root" THEN "AttributeError" ELSE file_error(file)

\* The exceptions the two handlers of get_descendants_id take: ValueError
\* with its subclasses, IOError (that is OSError) with its subclasses.
\* Handlers taking only the IOError family, only the ValueError family, or
\* every exception (variants):
absorbed_io_only(e)    == e \in {"FileNotFoundError"}
absorbed_value_only(e) == e \in {"ValueError", "JSONDecodeError"}
absorbed_any(e)        == TRUE

absorbed(e) == e \in {"ValueError", "JSONDecodeError", "FileNotFoundError"}

IdReturned(v) == [exc |-> "None", val |-> v]
IdRaised(e)   == [exc |-> e, val |-> {}]

\* The try block ended with exception e.
id_handlers(e, brain_region_id) ==
    IF absorbed(e) THEN IdReturned({brain_region_id}) ELSE IdRaised(e)

\* get_descendants_id for any identifier: int(), load_config and descendants
\* run in this order inside the try block.
get_descendants_id_any(brain_region_id, file) ==
    LET brain_region_int == int(brain_region_id)
    IN  IF brain_region_int.exc # "None" THEN id_handlers(brain_region_int.exc, brain_region_id)
        ELSE IF load_config_error(file) # "None"
        THEN id_handlers(load_config_error(file), brain_region_id)
        ELSE LET hierarchy == descendants(file.children_ids, IntArg(brain_region_int.val))
             IN  IF hierarchy.exc # "None" THEN id_handlers(hierarchy.exc, brain_region_id)
                 ELSE IdReturned({IntId(d) : d \in hierarchy.val})

IdChars == {"0", "1", "a", "-"}

Identifiers ==
    {IntId(n) : n \in 0..(MaxNameId + 1)}
    \cup {StrId(t) : t \in UNION {[1..n -> IdChars] : n \in 1..MaxIdLen}}

InitId ==
    /\ gd_id \in Identifiers
    /\ gd_file \in {HierarchyFile(<<>>, cids) : cids \in Hierarchies(MaxNameId)}
                   \cup {BadFile("missing"), BadFile("corrupt"), NoRootFile}
    /\ gd_result = [exc |-> "NotCalled", val |-> {}]
    /\ gd_pc = "call"
    /\ IdleDesc
    /\ IdleNames
    /\ IdleQuery
    /\ IdleSearch
    /\ IdleParams
    /\ IdleRetrieval
    /\ IdleChildren
    /\ IdleWalk
    /\ IdleConfig
    /\ IdleArticles

CallGetDescendantsId ==
    /\ gd_pc = "call"
    /\ gd_result' = get_descendants_id_any(gd_id, gd_file)
    /\ gd_pc' = "done"
    /\ UNCHANGED <<gd_id, gd_file, descVars, namesVars, queryVars, esVars, paramVars, retrVars, childVars, walkVars, cfgVars, artVars>>

NextId == CallGetDescendantsId

SpecId == InitId /\ [][NextId]_vars

-----------------------------------------------------------------------------
(* C23 *)

\* C23: for an identifier that int() does not convert, get_descendants_id
\* returns the set holding just that identifier, whatever the file is.
C23_NotConvertibleGivesSingleton ==
    (gd_pc = "done" /\ int(gd_id).exc # "None")
    => gd_result = IdReturned({gd_id})

\* A word asked of a file with a hierarchy in it.
C23_Witness ==
    /\ gd_pc = "done"
    /\ gd_id = StrId(<<"a">>)
    /\ gd_file.status = "ok"
    /\ gd_file.children_ids[1] = <<2>>
    /\ gd_result = IdReturned({StrId(<<"a">>)})

\* A digit followed by a letter, asked of a file that is not there.
C23_WitnessMissing ==
    /\ gd_pc = "done"
    /\ gd_id = StrId(<<"1", "a">>)
    /\ gd_file.status = "missing"
    /\ gd_result = IdReturned({StrId(<<"1", "a">>)})

-----------------------------------------------------------------------------
(* C24 *)

\* C24: for an identifier that is or converts to an integer and a file that
\* is missing or not json, get_descendants_id returns the set holding just
\* the identifier as it was given.
C24_BadFileGivesSingleton ==
    (/\ gd_pc = "done"
     /\ int(gd_id).exc = "None"
     /\ gd_file.status \in {"missing", "corrupt"})
    => gd_result = IdReturned({gd_id})

\* An integer asked of a missing file.
C24_Witness ==
    /\ gd_pc = "done"
    /\ gd_id = IntId(1)
    /\ gd_file.status = "missing"
    /\ gd_result = IdReturned({IntId(1)})

\* A string of digits asked of a file that is not json.
C24_WitnessCorrupt ==
    /\ gd_pc = "done"
    /\ gd_id = StrId(<<"1", "0">>)
    /\ gd_file.status = "corrupt"
    /\ gd_result = IdReturned({StrId(<<"1", "0">>)})

-----------------------------------------------------------------------------
(* C27 *)

\* C27: for an identifier that converts to an integer which is no id of the
\* hierarchy the file holds, get_descendants_id raises KeyError.
C27_UnknownIdRaisesKeyError ==
    (/\ gd_pc = "done"
     /\ gd_file.status = "ok"
     /\ int(gd_id).exc = "None"
     /\ int(gd_id).val \notin DOMAIN gd_file.children_ids)
    => gd_result = IdRaised("KeyError")

\* A string of digits that names no region of a hierarchy with regions.
C27_Witness ==
    /\ gd_pc = "done"
    /\ gd_id = StrId(<<"1", "1">>)
    /\ gd_file.status = "ok"
    /\ gd_file.children_ids[1] = <<2>>
    /\ gd_result = IdRaised("KeyError")

-----------------------------------------------------------------------------
(* Specification SpecConfig: save_config, then load_config of the file *)

\* str(n) for an int, as json.dumps writes the key n of a dict.
DigitChar(d) ==
    CASE d = 0 -> "0" [] d = 1 -> "1" [] d = 2 -> "2" [] d = 3 -> "3" [] d = 4 -> "4"
      [] d = 5 -> "5" [] d = 6 -> "6" [] d = 7 -> "7" [] d = 8 -> "8" [] d = 9 -> "9"

RECURSIVE str_of_nat(_)
str_of_nat(n) ==
    IF n < 10 THEN <<DigitChar(n)>> ELSE str_of_nat(n \div 10) \o <<DigitChar(n % 10)>>

str_of_int(n) == IF n < 0 THEN <<"-">> \o str_of_nat(0 - n) ELSE str_of_nat(n)

\* json.dumps of a dict keyed by ints: a json object keyed by their strings;
\* the values (strings, ints, None as null, lists) are written as they are.
dumps_dict(d) ==
    [key \in {str_of_int(k) : k \in DOMAIN d} |->
        d[CHOOSE k \in DOMAIN d : str_of_int(k) = key]]

\* {int(k): v for k, v in obj.items()} for a json object.
int_keys(obj) ==
    [k \in {int(StrId(key)).val : key \in DOMAIN obj} |->
        obj[CHOOSE key \in DOMAIN obj : int(StrId(key)).val = k]]

\* A RegionMeta: root_id is an int or None.
RegionMeta(root, nm, lv, par, cids) ==
    [root_id |-> root, name_ |-> nm, st_level |-> lv, parent_id |-> par, children_ids |-> cids]

\* RegionMeta(): what __init__ leaves.
NewRegionMeta ==
    RegionMeta(NullNum,
               [k \in {background_id} |-> "background"],
               [k \in {background_id} |-> NullNum],
               [k \in {background_id} |-> background_id],
               [k \in {background_id} |-> <<>>])

\* save_config: the json document written to the file.
save_config(h) ==
    [root_id      |-> h.root_id,
     names        |-> dumps_dict(h.name_),
     st_level     |-> dumps_dict(h.st_level),
     parent_id    |-> dumps_dict(h.parent_id),
     children_ids |-> dumps_dict(h.children_ids)]

\* load_config: every member that is not an int is taken for a dict and its
\* keys converted, the null of a missing root included, on which .items()
\* raises AttributeError.
load_config(doc) ==
    IF ~doc.root_id.some THEN [exc |-> "AttributeError"]
    ELSE [exc |-> "None",
          self |-> RegionMeta(doc.root_id,
                              int_keys(doc.names),
                              int_keys(doc.st_level),
                              int_keys(doc.parent_id),
                              int_keys(doc.children_ids))]

\* The region ids of the saved objects: the background and ids of two digits.
RegionIdOf(i) == IF i = 0 THEN background_id ELSE 9 + i

RegionNames == <<"thalamus", "cortex", "pons", "medulla">>

RECURSIVE DepthOf(_, _)
DepthOf(p, i) == IF i = 0 THEN 0 ELSE 1 + DepthOf(p, p[i])

RegionIdsOf(seq) == [k \in 1..Len(seq) |-> RegionIdOf(seq[k])]

\* The RegionMeta a hierarchy over 0..n makes, with one of the regions under
\* the background as root, or with no root set.
MetaOf(p, n, ascending, root) ==
    LET cids == ChildrenOf(p, n, ascending, TRUE)
        idx(id)  == CHOOSE i \in 0..n : RegionIdOf(i) = id
        keys == {RegionIdOf(i) : i \in 0..n}
    IN  RegionMeta(root,
                   [id \in keys |-> IF id = background_id THEN "background"
                                    ELSE RegionNames[idx(id)]],
                   [id \in keys |-> IF id = background_id THEN NullNum
                                    ELSE Num(DepthOf(p, idx(id)) - 1)],
                   [id \in keys |-> IF id = background_id THEN background_id
                                    ELSE RegionIdOf(p[idx(id)])],
                   [id \in keys |-> RegionIdsOf(cids[idx(id)])])

RegionMetas ==
    {NewRegionMeta}
    \cup {MetaOf(p, MaxCfgId, asc, root) :
             p \in TreeParents(MaxCfgId), asc \in BOOLEAN,
             root \in {NullNum} \cup {Num(RegionIdOf(i)) : i \in 1..MaxCfgId}}

InitConfig ==
    /\ cf_meta \in RegionMetas
    /\ cf_file = <<>>
    /\ cf_loaded = [exc |-> "NotCalled"]
    /\ cf_pc = "save"
    /\ IdleDesc
    /\ IdleNames
    /\ IdleQuery
    /\ IdleSearch
    /\ IdleParams
    /\ IdleRetrieval
    /\ IdleChildren
    /\ IdleWalk
    /\ IdleId
    /\ IdleArticles

cfgOthers == <<descVars, namesVars, queryVars, esVars, paramVars, retrVars, childVars, walkVars, idVars, artVars>>

config_save ==
    /\ cf_pc = "save"
    /\ cf_file' = save_config(cf_meta)
    /\ cf_pc' = "load"
    /\ UNCHANGED <<cf_meta, cf_loaded, cfgOthers>>

config_load ==
    /\ cf_pc = "load"
    /\ cf_loaded' = load_config(cf_file)
    /\ cf_pc' = "done"
    /\ UNCHANGED <<cf_meta, cf_file, cfgOthers>>

NextConfig == config_save \/ config_load

SpecConfig == InitConfig /\ [][NextConfig]_vars

-----------------------------------------------------------------------------
(* C21 *)

SameRegionMeta(g, h) ==
    /\ g.root_id = h.root_id
    /\ g.name_ = h.name_
    /\ g.st_level = h.st_level
    /\ g.parent_id = h.parent_id
    /\ g.children_ids = h.children_ids

\* C21: loading the file save_config wrote gives a RegionMeta with the root
\* id and the four maps of the saved one, keyed by ints.
C21_SaveLoadRoundTrip ==
    cf_pc = "done" =>
        /\ cf_loaded.exc = "None"
        /\ SameRegionMeta(cf_loaded.self, cf_meta)

\* The round trip of a RegionMeta whose root is set.
RoundTripOfRooted ==
    (cf_pc = "done" /\ cf_meta.root_id.some) =>
        /\ cf_loaded.exc = "None"
        /\ SameRegionMeta(cf_loaded.self, cf_meta)

\* The file keys are strings of two digits.
RoundTripOfRootedSeen ==
    /\ cf_pc = "done"
    /\ cf_meta.root_id.some
    /\ <<"1", "2">> \in DOMAIN cf_file.names
    /\ 12 \in DOMAIN cf_loaded.self.name_

-----------------------------------------------------------------------------
(* The article_count and article_listing endpoints (app/routers/retrieval.py) *)

\* The topic clauses are built as in build_search_query (topic_query); the
\* regions make one OR clause of the names as given, without expansion.
article_regions_query(rg) ==
    IF rg.some
    THEN << [bool |-> [should |-> [i \in 1..Len(rg.v) |-> multi_match(rg.v[i])]]] >>
    ELSE <<>>

\* filter_query["bool"]["must"] if filter_query else []
article_filter_list(fq) == IF fq.some THEN fq.bool.must ELSE <<>>

\* query["query"]["bool"]["must"]
article_query_must(tp, rg, fq) ==
    topic_query(tp) \o article_regions_query(rg) \o article_filter_list(fq)

\* `if not topics and not regions`: None and the empty list are falsy.
nothing_asked(tp, rg) == ~Truthy(tp) /\ ~Truthy(rg)

\* ds_client.search(index, query=query, size=0, aggs=aggs)
SearchSent(must, aggs) == [some |-> TRUE, must |-> must, aggs |-> aggs, size |-> 0]
NoSearch == [some |-> FALSE, must |-> <<>>, aggs |-> "", size |-> 0]

\* The outcomes of a request to the two endpoints.
NotAnswered ==
    [status |-> 0, exc |-> "NotCalled", code |-> 0, article_count |-> 0, items |-> <<>>]
ArticleCountResponse(n) ==
    [status |-> 200, exc |-> "None", code |-> 0, article_count |-> n, items |-> <<>>]
Page(items) ==
    [status |-> 200, exc |-> "None", code |-> 0, article_count |-> 0, items |-> items]
ArticleHTTPException(status_code, code) ==
    [status |-> status_code, exc |-> "HTTPException", code |-> code, article_count |-> 0,
     items |-> <<>>]
ArticleUnhandled(e) ==
    [status |-> 500, exc |-> e, code |-> 0, article_count |-> 0, items |-> <<>>]

\* The articles the index can hold: the _source of the best hit of each.
Articles ==
    { [article_id |-> "ID12345", doi |-> "10.1/12345", journal |-> Journal("1234-5678"),
       title |-> "Very important article", date |-> NullStr, pubmed_id |-> NullStr,
       authors |-> <<"A", "B">>, article_type |-> "research"],
      [article_id |-> "ID67890", doi |-> "10.1/67890", journal |-> NoJournal,
       title |-> "Another article", date |-> Str("2022-12-01"), pubmed_id |-> Str("PM1"),
       authors |-> <<"C">>, article_type |-> "review"] }

\* The buckets of the relevant_ids aggregation: one per article, at most
\* number_results of them, in the order of the aggregation.
relevant_ids(store, number_results) ==
    SubSeq(store, 1, IF number_results < Len(store) THEN number_results ELSE Len(store))

\* retrieve_metadata(docs, ...) with its default to_retrieve: the four
\* results.
retrieve_metadata(metadata_retriever, docs) ==
    {[get_citation_count |-> e.get_citation_count,
      get_journal_name   |-> e.get_journal_name,
      get_impact_factors |-> e.get_impact_factors,
      recreate_abstract  |-> a.recreate_abstract]
        : e \in retrieve_external(metadata_retriever, docs), a \in retrieve_abstracts(docs)}

\* The ArticleMetadata of a document.
article_metadata(context, abstracts, journal_names, impact_factors, citedby_counts) ==
    [article_title   |-> context.title,
     journal_issn    |-> context.journal,
     date            |-> context.date,
     article_id      |-> context.article_id,
     article_doi     |-> context.doi,
     pubmed_id       |-> context.pubmed_id,
     article_authors |-> context.authors,
     article_type    |-> context.article_type,
     abstract        |-> abstracts[context.article_id],
     journal_name    |-> dict_get(journal_names, context.journal, NullStr),
     impact_factor   |-> impact_factors[context.journal],
     cited_by        |-> dict_get(citedby_counts, context.doi, NullNum)]

\* The loop over docs; abstracts[...] and impact_factors[...] raise KeyError
\* for a key the mapping does not hold.
listing_of(docs, fetched_metadata) ==
    LET citedby_counts == get_or_empty(fetched_metadata.get_citation_count)
        journal_names  == get_or_empty(fetched_metadata.get_journal_name)
        impact_factors == fetched_metadata.get_impact_factors
        abstracts      == fetched_metadata.recreate_abstract
    IN  IF \E i \in 1..Len(docs) : \/ docs[i].article_id \notin DOMAIN abstracts
                                   \/ docs[i].journal \notin DOMAIN impact_factors
        THEN ArticleUnhandled("KeyError")
        ELSE Page([i \in 1..Len(docs) |->
                article_metadata(docs[i], abstracts, journal_names, impact_factors,
                                 citedby_counts)])

-----------------------------------------------------------------------------
(* Specification SpecArticles: one request to article_count or article_listing *)

ArticleRequests ==
    [topics         : {None, Some(<< <<"retina">> >>),
                       Some(<< <<"pyramidal", "cells">>, <<"retina">> >>)},
     regions        : {None, Some(<< <<"thalamus">> >>)},
     journals       : {None, Some(<<"1111-1111">>)},
     date_from      : {NoDate, Date("2022-12-01")},
     number_results : {1, 100},
     sort_by_date   : BOOLEAN]

\* The filter_query dependency of the request.
filter_query_of(request) ==
    get_query_from_params(None, None, request.journals, request.date_from, NoDate)

InitArticles ==
    /\ ar_endpoint \in {"article_count", "article_listing"}
    /\ ar_request \in ArticleRequests
    /\ ar_endpoint = "article_count"
          => ar_request.number_results = 100 /\ ~ar_request.sort_by_date
    /\ ar_settings \in [metadata : [external_apis : BOOLEAN]]
    /\ ar_store \in UNION {Orders(S) : S \in {T \in SUBSET Articles : Cardinality(T) <= MaxArticles}}
    /\ ar_sent = NoSearch
    /\ ar_response = NotAnswered
    /\ ar_pc = "request"
    /\ IdleDesc
    /\ IdleNames
    /\ IdleQuery
    /\ IdleSearch
    /\ IdleParams
    /\ IdleRetrieval
    /\ IdleChildren
    /\ IdleWalk
    /\ IdleId
    /\ IdleConfig

artOthers == <<descVars, namesVars, queryVars, esVars, paramVars, retrVars, childVars, walkVars, idVars, cfgVars>>

\* article_count: the check of the keywords, the query, the search with the
\* cardinality aggregation, the count.
article_count ==
    /\ ar_pc = "request"
    /\ ar_endpoint = "article_count"
    /\ IF nothing_asked(ar_request.topics, ar_request.regions)
       THEN /\ ar_response' = ArticleHTTPException(422, 0)
            /\ UNCHANGED ar_sent
       ELSE /\ ar_sent' = SearchSent(article_query_must(ar_request.topics, ar_request.regions,
                                                       filter_query_of(ar_request)),
                                     "article_count")
            /\ ar_response' = ArticleCountResponse(Len(ar_store))
    /\ ar_pc' = "done"
    /\ UNCHANGED <<ar_endpoint, ar_request, ar_settings, ar_store, artOthers>>

\* article_listing: the check of the keywords, the query, the search with
\* the relevant_ids aggregation, the check that it found something, the
\* metadata and the page of ArticleMetadata.
article_listing ==
    /\ ar_pc = "request"
    /\ ar_endpoint = "article_listing"
    /\ IF nothing_asked(ar_request.topics, ar_request.regions)
       THEN /\ ar_response' = ArticleHTTPException(422, 0)
            /\ UNCHANGED ar_sent
       ELSE /\ ar_sent' = SearchSent(article_query_must(ar_request.topics, ar_request.regions,
                                                       filter_query_of(ar_request)),
                                     IF ar_request.sort_by_date THEN "relevant_ids by date"
                                     ELSE "relevant_ids by score")
            /\ LET docs == relevant_ids(ar_store, ar_request.number_results)
               IN  IF Len(docs) = 0
                   THEN ar_response' = ArticleHTTPException(500, NO_DB_ENTRIES)
                   ELSE \E fetched_metadata \in
                              retrieve_metadata(MetaDataRetriever(ar_settings), docs) :
                           ar_response' = listing_of(docs, fetched_metadata)
    /\ ar_pc' = "done"
    /\ UNCHANGED <<ar_endpoint, ar_request, ar_settings, ar_store, artOthers>>

NextArticles == article_count \/ article_listing

SpecArticles == InitArticles /\ [][NextArticles]_vars

-----------------------------------------------------------------------------
(* C28 *)

NeitherTopicsNorRegions ==
    /\ ar_pc = "done"
    /\ ~Truthy(ar_request.topics)
    /\ ~Truthy(ar_request.regions)

\* C28: a request to article_count or article_listing without topics and
\* without regions is not refused as an input error: the search runs with
\* the filter clauses alone, and article_count answers with the count found.
C28_AcceptedWithoutKeywords ==
    NeitherTopicsNorRegions =>
        /\ ar_response.status # 422
        /\ ar_sent.some
        /\ ar_sent.must = article_filter_list(filter_query_of(ar_request))
        /\ ar_endpoint = "article_count" => ar_response = ArticleCountResponse(Len(ar_store))

\* A request with keywords is searched with the keyword clauses followed by
\* the filter clauses.
KeywordsSearched ==
    (ar_pc = "done" /\ Truthy(ar_request.topics))
    => /\ ar_sent.some
       /\ Len(ar_sent.must) = Len(ar_request.topics.v)
                              + (IF ar_request.regions.some THEN 1 ELSE 0)
                              + Len(article_filter_list(filter_query_of(ar_request)))

=============================================================================
